---- MODULE Spec2Model ----
(***************************************************************************)
(* A model of the rs-query-engine physical operators: Selection,           *)
(* NestedLoopJoin, Aggregation with its aggregate operators, Projection,   *)
(* and the translation of a DataFrame's logical plan by the QueryPlanner.   *)
(*                                                                         *)
(* Conventions.  Option<T> is a sequence of length 0 (None) or 1 (Some).   *)
(* An arrow array is [dt, vals]; a RecordBatch is [schema, columns].       *)
(* Positions and column indices are 0-based as in the source; the model    *)
(* adds 1 when it indexes a TLA+ sequence.  An f64 is a rational <<n, d>>  *)
(* with d >= 0, where d = 0 stands for NaN (n = 0) and the infinities.     *)
(* A Result is [status, err, ...] with status "Ok", "Err" or "Panic".      *)
(***************************************************************************)
EXTENDS Integers, Sequences, FiniteSets, TLC

VARIABLES
    op,        \* which operator this behaviour exercises
    plan,      \* the physical plan: its inputs and parameters, fixed after construction
    aggr_expr, \* Aggregation.aggr_expr: the accumulators behind the Mutex
    result,    \* what the last execute() returned
    prev,      \* what the execute() before it returned
    runs,      \* how many execute() calls have returned
    trail,     \* bookkeeping: the group order of the last call, the values a Count
               \* has visited, the logical plan a projection was planned from, the
               \* arguments of a DataFrame call, the calls made on a Catalog
    catalog    \* the Catalog: its HashMap of registered tables

vars == <<op, plan, aggr_expr, result, prev, runs, trail, catalog>>

----------------------------------------------------------------------------
(* Bounds *)

MaxSelRows == 3
MaxBatches == 2
MaxJoinRows == 2
MaxAggRows == 3
MaxRuns == 2
MaxCount == 4
MaxProjRows == 2
MaxExprs == 2
MaxFields == 2
MaxKeys == 2
MaxEvalRows == 1

----------------------------------------------------------------------------
(* Option, Result and sequence helpers *)

None == << >>
Some(v) == <<v>>
IsSome(o) == Len(o) = 1

\* Catalog::default(): no table is registered.
CatalogDefault == [tables |-> << >>]

Idle == [status |-> "Idle", err |-> "", batches |-> << >>]
Ok(bs) == [status |-> "Ok", err |-> "", batches |-> bs]
Err(e) == [status |-> "Err", err |-> e, batches |-> << >>]
Panic == [status |-> "Panic", err |-> "panic", batches |-> << >>]

Range(s) == {s[i] : i \in DOMAIN s}

RECURSIVE SeqsUpTo(_, _)
SeqsUpTo(S, n) ==
    IF n = 0 THEN {<< >>}
    ELSE LET shorter == SeqsUpTo(S, n - 1)
         IN  shorter \cup {Append(s, x) : s \in {t \in shorter : Len(t) = n - 1}, x \in S}

RECURSIVE Flatten(_)
Flatten(ss) == IF ss = << >> THEN << >> ELSE Head(ss) \o Flatten(Tail(ss))

\* The positions i (0-based) of s, in order, for which keep[i + 1] holds.
RECURSIVE PositionsWhere(_, _)
\* The element of a one-element set: Only({e(x) : x \in {v}}) is e(v), with v
\* evaluated once.
Only(S) == CHOOSE x \in S : TRUE

PositionsWhere(keep, n) ==
    IF n = 0 THEN << >>
    ELSE LET before == PositionsWhere(keep, n - 1)
         IN  IF keep[n] THEN Append(before, n - 1) ELSE before

----------------------------------------------------------------------------
(* f64 as exact rationals *)

Abs(x) == IF x < 0 THEN -x ELSE x

RECURSIVE Gcd(_, _)
Gcd(a, b) == IF b = 0 THEN a ELSE Gcd(b, a % b)

Sign(x) == IF x > 0 THEN 1 ELSE IF x < 0 THEN -1 ELSE 0

\* n / d as an f64: finite and in lowest terms, or 0/0 (NaN), 1/0, -1/0.
Rat(n, d) ==
    IF d = 0 THEN <<Sign(n), 0>>
    ELSE LET g == Gcd(Abs(n), Abs(d))
             s == IF d < 0 THEN -1 ELSE 1
         IN  <<(s * n) \div g, (s * d) \div g>>

\* Arithmetic and comparison of finite f64 values (d > 0).
FAdd(x, y) == Rat(x[1] * y[2] + y[1] * x[2], x[2] * y[2])
FSub(x, y) == Rat(x[1] * y[2] - y[1] * x[2], x[2] * y[2])
FMul(x, y) == Rat(x[1] * y[1], x[2] * y[2])
FDiv(x, y) == Rat(x[1] * y[2], x[2] * y[1])
FLt(x, y) == x[1] * y[2] < y[1] * x[2]

----------------------------------------------------------------------------
(* Fields, schemas, arrays and record batches *)

DataTypes == {"Null", "Boolean", "Int64", "UInt64", "Float64", "Utf8"}

Field(name, dt, nullable) == [name |-> name, dt |-> dt, nullable |-> nullable]

Array(dt, vals) == [dt |-> dt, vals |-> vals]

array_len(a) == Len(a.vals)

is_null(a, i) == ~IsSome(a.vals[i + 1])

null_count(a) == Cardinality({i \in DOMAIN a.vals : ~IsSome(a.vals[i])})

new_null_array(dt, size) == Array(dt, [i \in 1..size |-> None])

RecordBatch(schema, columns) == [schema |-> schema, columns |-> columns]

num_rows(batch) == IF batch.columns = << >> THEN 0 ELSE array_len(batch.columns[1])

\* RecordBatch::try_new: one column per field, of the field's type, all of one length.
try_new(schema, columns) ==
    IF /\ Len(columns) = Len(schema)
       /\ \A i \in DOMAIN columns : columns[i].dt = schema[i].dt
       /\ \A i, j \in DOMAIN columns : array_len(columns[i]) = array_len(columns[j])
    THEN Ok(<<RecordBatch(schema, columns)>>)
    ELSE Err("ArrowError")

\* util::concat_batches: column i of every batch, concatenated, for each field of `schema`.
concat_batches(schema, batches) ==
    IF batches = << >>
    THEN Ok(<<RecordBatch(schema, [i \in DOMAIN schema |-> Array(schema[i].dt, << >>)])>>)
    ELSE IF \E b \in DOMAIN batches : Len(batches[b].columns) < Len(schema)
    THEN Panic
    ELSE IF \E i \in DOMAIN schema, b \in DOMAIN batches :
                batches[b].columns[i].dt # batches[1].columns[i].dt
    THEN Err("ArrowError")
    ELSE try_new(schema,
                 [i \in DOMAIN schema |->
                     Array(batches[1].columns[i].dt,
                           Flatten([b \in DOMAIN batches |-> batches[b].columns[i].vals]))])

\* compute::take: the values of `a` at the given positions, in the given order.
take(a, positions) == Array(a.dt, [k \in DOMAIN positions |-> a.vals[positions[k] + 1]])

----------------------------------------------------------------------------
(* Scalars and column arrays *)

Scalar(dt, v) == [dt |-> dt, v |-> v]

ScalarNull == Scalar("Null", None)

scalar_to_field(s) == Field(s.dt, s.dt, TRUE)

\* A to_array that forgets the value: `size` nulls of the scalar's type.
scalar_to_array_nulls(s, size) == new_null_array(s.dt, size)

\* Scalar::to_array
scalar_to_array(s, size) ==
    IF IsSome(s.v) THEN Array(s.dt, [i \in 1..size |-> s.v])
    ELSE new_null_array(s.dt, size)

CAArray(a) == [form |-> "Array", arr |-> a]
CALiteral(s, size) == [form |-> "Literal", literal |-> s, size |-> size]

\* A data_type that does not tell the signed from the unsigned integers.
ca_data_type_unsigned_as_signed(ca) ==
    IF (IF ca.form = "Array" THEN ca.arr.dt ELSE ca.literal.dt) \in {"Int64", "UInt64"}
    THEN "Int64"
    ELSE IF ca.form = "Array" THEN ca.arr.dt ELSE ca.literal.dt

\* ColumnArray::data_type
ca_data_type(ca) == IF ca.form = "Array" THEN ca.arr.dt ELSE scalar_to_field(ca.literal).dt

ca_to_array(ca) == IF ca.form = "Array" THEN ca.arr ELSE scalar_to_array(ca.literal, ca.size)

----------------------------------------------------------------------------
(* Physical expressions *)

ComparisonOps == {"Eq", "Neq", "Gt", "GtEq", "Lt", "LtEq"}
LogicalOps == {"And", "Or"}
ArithmeticOps == {"Add", "Sub", "Mul", "Div", "Mod"}
Operators == ComparisonOps \cup LogicalOps \cup ArithmeticOps

ColumnExpr(index) == [k |-> "Column", index |-> index]
LiteralExpr(literal) == [k |-> "Literal", literal |-> literal]
BinaryExpr(left, o, right) == [k |-> "Binary", left |-> left, op |-> o, right |-> right]
AliasExpr(name, expr) == [k |-> "Alias", name |-> name, expr |-> expr]

OkCol(ca) == [status |-> "Ok", err |-> "", col |-> ca]
ErrCol(e) == [status |-> "Err", err |-> e, col |-> CAArray(Array("Null", << >>))]
PanicCol == [status |-> "Panic", err |-> "panic", col |-> CAArray(Array("Null", << >>))]

\* The strings of the model, in lexicographic order.
Utf8Order == <<"a", "b">>
StrRank(x) == CHOOSE i \in DOMAIN Utf8Order : Utf8Order[i] = x

ValLt(dt, x, y) ==
    CASE dt = "Float64" -> FLt(x, y)
      [] dt = "Utf8"    -> StrRank(x) < StrRank(y)
      [] dt = "Boolean" -> ~x /\ y
      [] OTHER          -> x < y

Compare(o, dt, x, y) ==
    CASE o = "Eq"   -> x = y
      [] o = "Neq"  -> x # y
      [] o = "Lt"   -> ValLt(dt, x, y)
      [] o = "LtEq" -> ValLt(dt, x, y) \/ x = y
      [] o = "Gt"   -> ValLt(dt, y, x)
      [] o = "GtEq" -> ValLt(dt, y, x) \/ x = y

\* eq_dyn, neq_dyn, gt_dyn, ...: null where either side is null.
compare_op(o, left, right) ==
    IF array_len(left) # array_len(right) \/ left.dt = "Null" THEN ErrCol("ArrowError")
    ELSE OkCol(CAArray(Array("Boolean",
            [i \in DOMAIN left.vals |->
                IF IsSome(left.vals[i]) /\ IsSome(right.vals[i])
                THEN Some(Compare(o, left.dt, left.vals[i][1], right.vals[i][1]))
                ELSE None])))

\* binary_op! without its type guard: the arrays are downcast whatever their type.
binary_op_unguarded(o, left_type, right_type, left, right) ==
    IF left.dt # "Boolean" \/ right.dt # "Boolean" THEN PanicCol
    ELSE IF array_len(left) # array_len(right) THEN ErrCol("ArrowError")
    ELSE OkCol(CAArray(Array("Boolean",
            [i \in DOMAIN left.vals |->
                IF IsSome(left.vals[i]) /\ IsSome(right.vals[i])
                THEN Some(IF o = "And" THEN left.vals[i][1] /\ right.vals[i][1]
                                       ELSE left.vals[i][1] \/ right.vals[i][1])
                ELSE None])))

\* and / or over two BooleanArrays, reached only past the type guard of the macro.
binary_op(o, left_type, right_type, left, right) ==
    IF left_type # "Boolean" /\ right_type # "Boolean" THEN ErrCol("IntervalError")
    ELSE IF left.dt # "Boolean" \/ right.dt # "Boolean" THEN PanicCol
    ELSE IF array_len(left) # array_len(right) THEN ErrCol("ArrowError")
    ELSE OkCol(CAArray(Array("Boolean",
            [i \in DOMAIN left.vals |->
                IF IsSome(left.vals[i]) /\ IsSome(right.vals[i])
                THEN Some(IF o = "And" THEN left.vals[i][1] /\ right.vals[i][1]
                                       ELSE left.vals[i][1] \/ right.vals[i][1])
                ELSE None])))

IsZero(dt, x) == IF dt = "Float64" THEN x[1] = 0 ELSE x = 0

Arith(o, dt, x, y) ==
    IF dt = "Float64"
    THEN CASE o = "Add" -> FAdd(x, y)
           [] o = "Sub" -> FSub(x, y)
           [] o = "Mul" -> FMul(x, y)
           [] o = "Div" -> FDiv(x, y)
           [] o = "Mod" -> FSub(x, FMul(y, <<(x[1] * y[2]) \div (x[2] * y[1]), 1>>))
    ELSE CASE o = "Add" -> x + y
           [] o = "Sub" -> x - y
           [] o = "Mul" -> x * y
           [] o = "Div" -> x \div y
           [] o = "Mod" -> x % y

\* add, subtract, multiply, divide, modulus over two primitive arrays of `left_type`.
arithmetic_op(o, left_type, left, right) ==
    IF left_type \notin {"Int64", "UInt64", "Float64"} THEN PanicCol
    ELSE IF left.dt # left_type \/ right.dt # left_type THEN PanicCol
    ELSE IF array_len(left) # array_len(right) THEN ErrCol("ArrowError")
    ELSE IF /\ o \in {"Div", "Mod"}
            /\ \E i \in DOMAIN right.vals :
                   IsSome(left.vals[i]) /\ IsSome(right.vals[i]) /\ IsZero(left_type, right.vals[i][1])
    THEN ErrCol("ArrowError")
    ELSE OkCol(CAArray(Array(left_type,
            [i \in DOMAIN left.vals |->
                IF IsSome(left.vals[i]) /\ IsSome(right.vals[i])
                THEN Some(Arith(o, left_type, left.vals[i][1], right.vals[i][1]))
                ELSE None])))

RECURSIVE evaluate(_, _)
evaluate(expr, input) ==
    CASE expr.k = "Column" ->
            IF expr.index < Len(input.columns)
            THEN OkCol(CAArray(input.columns[expr.index + 1]))
            ELSE PanicCol
      [] expr.k = "Literal" -> OkCol(CALiteral(expr.literal, num_rows(input)))
      [] expr.k = "Alias" ->
            LET inner == evaluate(expr.expr, input)
            IN  IF inner.status # "Ok" THEN inner
                ELSE OkCol(CAArray(ca_to_array(inner.col)))
      [] expr.k = "Binary" ->
            LET left_value == evaluate(expr.left, input)
                right_value == evaluate(expr.right, input)
            IN  IF left_value.status # "Ok" THEN left_value
                ELSE IF right_value.status # "Ok" THEN right_value
                ELSE LET left_type == ca_data_type(left_value.col)
                         right_type == ca_data_type(right_value.col)
                         left_array == ca_to_array(left_value.col)
                         right_array == ca_to_array(right_value.col)
                     IN  IF left_type # right_type THEN ErrCol("IntervalError")
                         ELSE IF expr.op \in ComparisonOps
                              THEN compare_op(expr.op, left_array, right_array)
                         ELSE IF expr.op \in LogicalOps
                              THEN binary_op(expr.op, left_type, right_type, left_array, right_array)
                         ELSE arithmetic_op(expr.op, left_type, left_array, right_array)

----------------------------------------------------------------------------
(* Data sources and physical plans *)

\* A Table: its schema and the batches it holds.
Table(schema, batches) == [schema |-> schema, batches |-> batches]

BatchOfRows(schema, rows) ==
    RecordBatch(schema,
                [c \in DOMAIN schema |-> Array(schema[c].dt, [r \in DOMAIN rows |-> rows[r][c]])])

\* The ways of cutting `rows` into at most k non-empty consecutive chunks.
RECURSIVE Splits(_, _)
Splits(rows, k) ==
    IF rows = << >> THEN {<< >>}
    ELSE IF k = 0 THEN {}
    ELSE UNION {{<<SubSeq(rows, 1, i)>> \o rest :
                    rest \in Splits(SubSeq(rows, i + 1, Len(rows)), k - 1)} : i \in 1..Len(rows)}

TablesOf(schema, rowSet, maxRows, maxBatches) ==
    {Table(schema, [b \in DOMAIN chunks |-> BatchOfRows(schema, chunks[b])]) :
        chunks \in UNION {Splits(rows, maxBatches) : rows \in SeqsUpTo(rowSet, maxRows)}}

\* RecordBatch::project
project_batch(batch, projection) ==
    RecordBatch([i \in DOMAIN projection |-> batch.schema[projection[i] + 1]],
                [i \in DOMAIN projection |-> batch.columns[projection[i] + 1]])

\* CSVTable::scan
table_scan(table, projection) ==
    IF IsSome(projection)
    THEN IF \E b \in DOMAIN table.batches, i \in DOMAIN projection[1] :
                projection[1][i] >= Len(table.batches[b].columns)
         THEN Panic
         ELSE Ok([b \in DOMAIN table.batches |-> project_batch(table.batches[b], projection[1])])
    ELSE Ok(table.batches)

Scan(source, projection) == [k |-> "Scan", source |-> source, projection |-> projection]
Selection(input, expr) == [k |-> "Selection", input |-> input, expr |-> expr]
ProjectionExpr(input, schema, expr) ==
    [k |-> "Projection", input |-> input, schema |-> schema, expr |-> expr]
NestedLoopJoin(left, right, on, schema) ==
    [k |-> "NestedLoopJoin", left |-> left, right |-> right, on |-> on, schema |-> schema]
Aggregation(input, group_expr, schema) ==
    [k |-> "Aggregation", input |-> input, group_expr |-> group_expr, schema |-> schema]
\* Aggregation::new, keeping the accumulators the plan is built with.
AggregationOf(input, group_expr, aggr_ops, schema) ==
    [k |-> "Aggregation", input |-> input, group_expr |-> group_expr, schema |-> schema,
     aggr_expr |-> aggr_ops]

\* PhysicalPlan::schema
RECURSIVE plan_schema(_)
plan_schema(p) ==
    CASE p.k = "Scan"      -> p.source.schema
      [] p.k = "Selection" -> plan_schema(p.input)
      [] OTHER             -> p.schema

----------------------------------------------------------------------------
(* Selection *)

\* build_vals with the test of `valid` inverted: the rows whose predicate is false survive.
RECURSIVE build_vals_inverted(_, _)
build_vals_inverted(predicate, vals) ==
    IF predicate = << >> \/ vals = << >> THEN << >>
    ELSE LET valid == Head(predicate)
             rest == build_vals_inverted(Tail(predicate), Tail(vals))
         IN  IF IsSome(valid)
             THEN (IF ~valid[1] THEN <<Head(vals)>> \o rest ELSE rest)
             ELSE <<None>> \o rest

\* build_vals without the None arm: a row whose predicate is null is dropped.
RECURSIVE build_vals_drops_null_rows(_, _)
build_vals_drops_null_rows(predicate, vals) ==
    IF predicate = << >> \/ vals = << >> THEN << >>
    ELSE LET valid == Head(predicate)
             rest == build_vals_drops_null_rows(Tail(predicate), Tail(vals))
         IN  IF IsSome(valid) /\ valid[1] THEN <<Head(vals)>> \o rest ELSE rest

\* build_array_by_predicate!: zip the predicate with the column and copy.
RECURSIVE build_vals(_, _)
build_vals(predicate, vals) ==
    IF predicate = << >> \/ vals = << >> THEN << >>
    ELSE LET valid == Head(predicate)
             rest == build_vals(Tail(predicate), Tail(vals))
         IN  IF IsSome(valid)
             THEN (IF valid[1] THEN <<Head(vals)>> \o rest ELSE rest)
             ELSE <<None>> \o rest

build_array_by_predicate(column, predicate) ==
    Array(column.dt, build_vals(predicate.vals, column.vals))

SelectionSupported == {"Boolean", "Int64", "UInt64", "Float64", "Utf8"}

\* Selection::execute over the batches its input returned.
selection_execute(p, input) ==
    LET evaluated == [i \in DOMAIN input |-> evaluate(p.expr, input[i])]
    IN  IF \E i \in DOMAIN input : evaluated[i].status # "Ok" THEN Panic
        ELSE LET predicates == [i \in DOMAIN input |-> ca_to_array(evaluated[i].col)]
             IN  IF \E i \in DOMAIN input : predicates[i].dt # "Boolean" THEN Panic
                 ELSE IF \E i \in DOMAIN input : \E c \in DOMAIN input[i].columns :
                            input[i].columns[c].dt \notin SelectionSupported
                 THEN Panic
                 ELSE LET built == [i \in DOMAIN input |->
                                      try_new(plan_schema(p),
                                              [c \in DOMAIN input[i].columns |->
                                                  build_array_by_predicate(input[i].columns[c],
                                                                           predicates[i])])]
                      IN  IF \E i \in DOMAIN input : built[i].status # "Ok"
                          THEN Err("ArrowError")
                          ELSE Ok([i \in DOMAIN input |-> built[i].batches[1]])

----------------------------------------------------------------------------
(* Projection *)

\* ProjectionExpr::execute over the batches its input returned.
projection_execute(p, input) ==
    IF p.schema = << >> THEN Ok(input)
    ELSE LET evaluated == [b \in DOMAIN input |->
                             [e \in DOMAIN p.expr |-> evaluate(p.expr[e], input[b])]]
         IN  IF \E b \in DOMAIN input : \E e \in DOMAIN p.expr : evaluated[b][e].status # "Ok"
             THEN Panic
             ELSE LET built == [b \in DOMAIN input |->
                                  try_new(p.schema,
                                          [e \in DOMAIN p.expr |->
                                              ca_to_array(evaluated[b][e].col)])]
                  IN  IF \E b \in DOMAIN input : built[b].status # "Ok"
                      THEN Panic
                      ELSE Ok([b \in DOMAIN input |-> built[b].batches[1]])

----------------------------------------------------------------------------
(* Nested loop join *)

\* The flags one key pair sets: position l (r) is flagged when some position of the
\* other side holds an equal non-null value.
left_flag(left_col, right_col) ==
    [l \in DOMAIN left_col.vals |->
        \E r \in DOMAIN right_col.vals :
            /\ IsSome(left_col.vals[l]) /\ IsSome(right_col.vals[r])
            /\ left_col.vals[l][1] = right_col.vals[r][1]]

right_flag(left_col, right_col) ==
    [r \in DOMAIN right_col.vals |->
        \E l \in DOMAIN left_col.vals :
            /\ IsSome(left_col.vals[l]) /\ IsSome(right_col.vals[r])
            /\ left_col.vals[l][1] = right_col.vals[r][1]]

\* A loop over `on` that downcasts the two columns without comparing their types.
key_pair_status_unchecked(on, i, outer_table, inner_table) ==
    LET l == evaluate(on[i][1], outer_table)
        r == evaluate(on[i][2], inner_table)
    IN  IF l.status # "Ok" \/ r.status # "Ok" THEN "Panic"
        ELSE IF ca_data_type(l.col) # "Int64" \/ ca_data_type(r.col) # "Int64" THEN "Panic"
        ELSE "Ok"

\* How the loop over `on` fares at key pair i.
key_pair_status(on, i, outer_table, inner_table) ==
    LET l == evaluate(on[i][1], outer_table)
        r == evaluate(on[i][2], inner_table)
    IN  IF l.status # "Ok" \/ r.status # "Ok" THEN "Panic"
        ELSE IF ca_data_type(l.col) # ca_data_type(r.col) THEN "PhysicalPlanError"
        ELSE IF ca_data_type(l.col) # "Int64" THEN "Panic"
        ELSE "Ok"

\* Every left position, flagged or not, as a left outer join would take them.
outer_positions_all(left_flags, left_column_len) ==
    PositionsWhere([l \in 1..left_column_len |-> TRUE], left_column_len)

\* A left position is taken when every key pair flagged it.
outer_positions(left_flags, left_column_len) ==
    PositionsWhere([l \in 1..left_column_len |-> \A i \in DOMAIN left_flags : left_flags[i][l]],
                   left_column_len)

\* `flag = right_flag[right_pos]` for each key pair in turn: the last one stands.
RECURSIVE right_fold(_, _, _)
right_fold(flag, right_flags, right_pos) ==
    IF right_flags = << >> THEN flag
    ELSE right_fold(Head(right_flags)[right_pos], Tail(right_flags), right_pos)

inner_positions(right_flags, right_column_len) ==
    PositionsWhere([r \in 1..right_column_len |-> right_fold(FALSE, right_flags, r)],
                   right_column_len)

\* NestedLoopJoin::execute past the emptiness check, over the two materialized sides.
join_tables(p, outer_table, inner_table) ==
    LET statuses == [i \in DOMAIN p.on |-> key_pair_status(p.on, i, outer_table, inner_table)]
        bad == {i \in DOMAIN p.on : statuses[i] # "Ok"}
    IN  IF bad # {}
        THEN LET first == CHOOSE i \in bad : \A j \in bad : i <= j
             IN  IF statuses[first] = "Panic" THEN Panic ELSE Err("PhysicalPlanError")
        ELSE LET left_cols == [i \in DOMAIN p.on |-> ca_to_array(evaluate(p.on[i][1], outer_table).col)]
                 right_cols == [i \in DOMAIN p.on |-> ca_to_array(evaluate(p.on[i][2], inner_table).col)]
                 left_flags == [i \in DOMAIN p.on |-> left_flag(left_cols[i], right_cols[i])]
                 right_flags == [i \in DOMAIN p.on |-> right_flag(left_cols[i], right_cols[i])]
                 outer_pos == outer_positions(left_flags, Len(left_flags[1]))
                 inner_pos == inner_positions(right_flags, Len(right_flags[1]))
                 nl == Len(plan_schema(p.left))
                 nr == Len(plan_schema(p.right))
             IN  IF nl > Len(outer_table.columns) \/ nr > Len(inner_table.columns) THEN Panic
                 ELSE try_new(p.schema,
                              [i \in 1..nl |-> take(outer_table.columns[i], outer_pos)]
                              \o [i \in 1..nr |-> take(inner_table.columns[i], inner_pos)])

----------------------------------------------------------------------------
(* execute() of the operators that keep no state *)

RECURSIVE execute(_)
execute(p) ==
    CASE p.k = "Scan" -> table_scan(p.source, p.projection)
      [] p.k = "Selection" ->
            LET input == execute(p.input)
            IN  IF input.status # "Ok" THEN input ELSE selection_execute(p, input.batches)
      [] p.k = "Projection" ->
            LET input == execute(p.input)
            IN  IF input.status # "Ok" THEN input ELSE projection_execute(p, input.batches)
      [] p.k = "NestedLoopJoin" ->
            IF p.on = << >> THEN Err("PhysicalPlanError")
            ELSE LET outer == execute(p.left)
                 IN  IF outer.status # "Ok" THEN outer
                     ELSE LET outer_table == concat_batches(plan_schema(p.left), outer.batches)
                          IN  IF outer_table.status # "Ok" THEN outer_table
                              ELSE LET inner == execute(p.right)
                                   IN  IF inner.status # "Ok" THEN inner
                                       ELSE LET inner_table ==
                                                    concat_batches(plan_schema(p.right), inner.batches)
                                            IN  IF inner_table.status # "Ok" THEN inner_table
                                                ELSE join_tables(p, outer_table.batches[1],
                                                                 inner_table.batches[1])

----------------------------------------------------------------------------
(* Selection over a scanned table *)

Int64Values == {None, Some(1), Some(2)}
BooleanValues == {None, Some(TRUE), Some(FALSE)}

SelSchema == <<Field("v", "Int64", TRUE), Field("keep", "Boolean", TRUE)>>

\* The rows of the selection tables: every value under a true or a false flag, and
\* one row whose flag is null.
SelRows ==
    {<<v, b>> : v \in Int64Values, b \in {Some(TRUE), Some(FALSE)}} \cup {<<Some(1), None>>}

SelTables == TablesOf(SelSchema, SelRows, MaxSelRows, MaxBatches)

SelPredicates ==
    { ColumnExpr(1),
      BinaryExpr(ColumnExpr(0), "GtEq", LiteralExpr(Scalar("Int64", Some(2)))),
      LiteralExpr(Scalar("Boolean", Some(TRUE))),
      LiteralExpr(Scalar("Boolean", Some(FALSE))),
      BinaryExpr(ColumnExpr(0), "Gt", LiteralExpr(Scalar("Float64", Some(<<0, 1>>)))) }

InitSelection ==
    /\ op = "Selection"
    /\ catalog = CatalogDefault
    /\ plan \in {Selection(Scan(t, None), e) : t \in SelTables, e \in SelPredicates}
    /\ aggr_expr = << >>
    /\ result = Idle
    /\ prev = Idle
    /\ runs = 0
    /\ trail = << >>

\* One call of execute() on a plan of operators that keep no state.
Execute ==
    /\ op \in {"Selection", "Projection", "NestedLoopJoin"}
    /\ runs = 0
    /\ result' = execute(plan)
    /\ prev' = result
    /\ runs' = runs + 1
    /\ UNCHANGED <<catalog, op, plan, aggr_expr, trail>>

SpecSelection == InitSelection /\ [][Execute]_vars

\* The predicate column of input batch i, when its evaluation succeeds.
PredicateOf(i) == ca_to_array(evaluate(plan.expr, plan.input.source.batches[i]).col)

PredicateHasNoNull(i) ==
    /\ evaluate(plan.expr, plan.input.source.batches[i]).status = "Ok"
    /\ PredicateOf(i).dt = "Boolean"
    /\ null_count(PredicateOf(i)) = 0

TruePositions(i) ==
    PositionsWhere([r \in DOMAIN PredicateOf(i).vals |-> PredicateOf(i).vals[r] = Some(TRUE)],
                   array_len(PredicateOf(i)))

\* C1: with a predicate column free of nulls, Selection.execute returns, batch by
\* batch, exactly the input rows whose predicate value is true, values unchanged and
\* in their original order; all-true gives the rows back, all-false gives no row.
C1_SelectionKeepsTrueRows ==
    (op = "Selection" /\ runs > 0 /\ \A i \in DOMAIN plan.input.source.batches : PredicateHasNoNull(i))
    => LET input == plan.input.source.batches
       IN  /\ result.status = "Ok"
           /\ Len(result.batches) = Len(input)
           /\ \A i \in DOMAIN input :
                /\ result.batches[i].schema = input[i].schema
                /\ \A c \in DOMAIN input[i].columns :
                     result.batches[i].columns[c] = take(input[i].columns[c], TruePositions(i))
                /\ (\A r \in DOMAIN PredicateOf(i).vals : PredicateOf(i).vals[r] = Some(TRUE))
                     => result.batches[i] = input[i]
                /\ (\A r \in DOMAIN PredicateOf(i).vals : PredicateOf(i).vals[r] = Some(FALSE))
                     => num_rows(result.batches[i]) = 0

\* A selection that dropped the middle row of a three-row batch and kept a null value.
C1_Witness ==
    /\ op = "Selection" /\ runs > 0 /\ result.status = "Ok"
    /\ \A i \in DOMAIN plan.input.source.batches : PredicateHasNoNull(i)
    /\ \E i \in DOMAIN plan.input.source.batches :
         /\ TruePositions(i) = <<0, 2>>
         /\ num_rows(plan.input.source.batches[i]) = 3
         /\ result.batches[i].columns[1].vals[1] = None
         /\ result.batches[i].columns[1].vals[2] # None

----------------------------------------------------------------------------
(* Nested loop join of two scanned tables *)

LeftSchema == <<Field("a", "Int64", TRUE), Field("c", "Int64", TRUE)>>
RightSchema ==
    <<Field("b", "Int64", TRUE), Field("d", "Int64", TRUE), Field("s", "Utf8", TRUE)>>

LeftRows == {<<Some(1), Some(1)>>, <<Some(1), Some(2)>>, <<Some(2), Some(1)>>, <<None, Some(1)>>}
RightRows == {r \o <<Some("a")>> : r \in LeftRows}

LeftTables == TablesOf(LeftSchema, LeftRows, MaxJoinRows, MaxBatches)
RightTables == TablesOf(RightSchema, RightRows, MaxJoinRows, 1)

\* The key pairs of the joins: none, one, two in either order, and an Int64 column
\* against a Utf8 column, alone, after and before a pair of Int64 columns.
JoinOns ==
    { << >>,
      << <<ColumnExpr(0), ColumnExpr(0)>> >>,
      << <<ColumnExpr(0), ColumnExpr(0)>>, <<ColumnExpr(1), ColumnExpr(1)>> >>,
      << <<ColumnExpr(1), ColumnExpr(1)>>, <<ColumnExpr(0), ColumnExpr(0)>> >>,
      << <<ColumnExpr(0), ColumnExpr(2)>> >>,
      << <<ColumnExpr(0), ColumnExpr(0)>>, <<ColumnExpr(0), ColumnExpr(2)>> >>,
      << <<ColumnExpr(0), ColumnExpr(2)>>, <<ColumnExpr(0), ColumnExpr(0)>> >> }

\* Key pairs for a join of two tables of RightSchema: a pair of Utf8 columns,
\* alone and before an Int64 column against a Utf8 column.
Utf8JoinOns ==
    { << <<ColumnExpr(2), ColumnExpr(2)>> >>,
      << <<ColumnExpr(2), ColumnExpr(2)>>, <<ColumnExpr(0), ColumnExpr(2)>> >> }

\* A scan whose projection names a column the table does not have: executing
\* it over a table with a batch panics.
BadProjection == Some(<<3>>)

InitJoin ==
    /\ op = "NestedLoopJoin"
    /\ catalog = CatalogDefault
    /\ \/ plan \in {NestedLoopJoin(Scan(l, None), Scan(r, None), on, l.schema \o r.schema) :
                        l \in LeftTables, r \in RightTables, on \in JoinOns}
       \/ plan \in {NestedLoopJoin(Scan(l, None), Scan(r, None), on, l.schema \o r.schema) :
                        l \in RightTables, r \in RightTables, on \in Utf8JoinOns}
       \/ plan \in {NestedLoopJoin(Scan(l, BadProjection), Scan(r, BadProjection), on,
                                    l.schema \o r.schema) :
                        l \in LeftTables, r \in RightTables,
                        on \in {<< >>, << <<ColumnExpr(0), ColumnExpr(0)>> >>}}
    /\ aggr_expr = << >>
    /\ result = Idle
    /\ prev = Idle
    /\ runs = 0
    /\ trail = << >>

SpecJoin == InitJoin /\ [][Execute]_vars

JoinReturned == op = "NestedLoopJoin" /\ runs > 0 /\ result.status = "Ok"

\* Every key pair of `on` names an Int64 column on both sides.
Int64Keys ==
    \A i \in DOMAIN plan.on :
        /\ plan_schema(plan.left)[plan.on[i][1].index + 1].dt = "Int64"
        /\ plan_schema(plan.right)[plan.on[i][2].index + 1].dt = "Int64"

\* C2: every row of the joined batch pairs a left row and a right row whose key values
\* are non-null and equal on every key pair of `on`.
C2_JoinedRowsMatchOnKeys ==
    JoinReturned
    => LET out == result.batches[1]
           nl == Len(plan_schema(plan.left))
       IN  \A r \in 1..num_rows(out) : \A i \in DOMAIN plan.on :
               LET lv == out.columns[plan.on[i][1].index + 1].vals[r]
                   rv == out.columns[nl + plan.on[i][2].index + 1].vals[r]
               IN  IsSome(lv) /\ IsSome(rv) /\ lv = rv

\* C3: with Int64 key columns and a non-empty `on` the join returns Ok with one batch
\* of left-field-count plus right-field-count columns, all of one length.
C3_JoinReturnsOneWellFormedBatch ==
    (op = "NestedLoopJoin" /\ runs > 0 /\ plan.on # << >> /\ Int64Keys)
    => /\ result.status = "Ok"
       /\ Len(result.batches) = 1
       /\ Len(result.batches[1].columns) = Len(plan_schema(plan.left)) + Len(plan_schema(plan.right))
       /\ \A i, j \in DOMAIN result.batches[1].columns :
              array_len(result.batches[1].columns[i]) = array_len(result.batches[1].columns[j])

----------------------------------------------------------------------------
(* Aggregate operators *)

NumericTypes == {"Int64", "UInt64", "Float64"}

Zero(dt) == IF dt = "Float64" THEN <<0, 1>> ELSE 0
Plus(dt, x, y) == IF dt = "Float64" THEN FAdd(x, y) ELSE x + y

\* Sum::new, Avg::new, Count::new
Sum(data_type, column) ==
    [kind |-> "SUM", sum |-> Scalar(data_type, Some(Zero(data_type))), column |-> column]
Avg(data_type, column) ==
    [kind |-> "AVG", count |-> 0, sum |-> Scalar(data_type, Some(Zero(data_type))),
     column |-> column]
Count(column) == [kind |-> "COUNT", count |-> 0, column |-> column]

\* i64::MAX, u64::MAX and f64::MAX, and i64::MIN, u64::MIN and f64::MIN.  The
\* integers of the model are narrower than 64 bits: a value beyond every value
\* of the model's columns stands for the limits of the types.
Limit == 1000000
TypeMax(dt) == IF dt = "Float64" THEN <<Limit, 1>> ELSE Limit
TypeMin(dt) == IF dt = "Float64" THEN <<-Limit, 1>> ELSE IF dt = "UInt64" THEN 0 ELSE -Limit

\* Max::new, Min::new: the accumulator starts at the least, respectively the
\* greatest, value of its type.
Max(data_type, column) ==
    [kind |-> "MAX", max |-> Scalar(data_type, Some(TypeMin(data_type))), column |-> column]
Min(data_type, column) ==
    [kind |-> "MIN", min |-> Scalar(data_type, Some(TypeMax(data_type))), column |-> column]

OkOp(o) == [status |-> "Ok", op |-> o]
PanicOp(o) == [status |-> "Panic", op |-> o]

\* AggrOperator::to_field against the schema the Aggregation holds.
aggr_to_field(o, schema) ==
    LET field == schema[o.column.index + 1]
    IN  CASE o.kind = "SUM"   -> Field("SUM(" \o field.name \o ")", field.dt, FALSE)
          [] o.kind = "MAX"   -> Field("MAX(" \o field.name \o ")", field.dt, FALSE)
          [] o.kind = "MIN"   -> Field("MIN(" \o field.name \o ")", field.dt, FALSE)
          [] o.kind = "AVG"   -> Field("AVG(" \o field.name \o ")", "Float64", FALSE)
          [] o.kind = "COUNT" -> Field("COUNT(" \o field.name \o ")", "UInt64", FALSE)

\* The update! macro of sum.rs and avg.rs: fold row i when it is not null and the
\* accumulator is of the column's type.
sum_update(o, column, i) ==
    IF ~is_null(column, i) /\ o.sum.dt = column.dt /\ IsSome(o.sum.v)
    THEN [o EXCEPT !.sum = Scalar(column.dt, Some(Plus(column.dt, o.sum.v[1], column.vals[i + 1][1])))]
    ELSE o

avg_update(o, column, i) ==
    IF ~is_null(column, i) /\ o.sum.dt = column.dt /\ IsSome(o.sum.v)
    THEN [o EXCEPT !.sum = Scalar(column.dt, Some(Plus(column.dt, o.sum.v[1], column.vals[i + 1][1]))),
                   !.count = o.count + 1]
    ELSE o

\* The update! macro of min.rs and max.rs: row i replaces the accumulator when
\* it is not null, the accumulator is of the column's type, and it is smaller,
\* respectively greater.
min_update(o, column, i) ==
    IF /\ ~is_null(column, i) /\ o.min.dt = column.dt /\ IsSome(o.min.v)
       /\ ValLt(column.dt, column.vals[i + 1][1], o.min.v[1])
    THEN [o EXCEPT !.min = Scalar(column.dt, Some(column.vals[i + 1][1]))]
    ELSE o

max_update(o, column, i) ==
    IF /\ ~is_null(column, i) /\ o.max.dt = column.dt /\ IsSome(o.max.v)
       /\ ValLt(column.dt, o.max.v[1], column.vals[i + 1][1])
    THEN [o EXCEPT !.max = Scalar(column.dt, Some(column.vals[i + 1][1]))]
    ELSE o

\* Count::update without the null check: every visited row counts.
count_update_every_row(o, column, i) == [o EXCEPT !.count = o.count + 1]

\* Count::update
count_update(o, column, i) ==
    IF ~is_null(column, i) THEN [o EXCEPT !.count = o.count + 1] ELSE o

\* AggrOperator::update
aggr_update(o, record_batch, i) ==
    Only({ IF column.status # "Ok" THEN PanicOp(o)
           ELSE IF o.kind = "COUNT" THEN OkOp(count_update(o, ca_to_array(column.col), i))
           ELSE IF ca_data_type(column.col) \notin NumericTypes THEN PanicOp(o)
           ELSE IF o.kind = "SUM" THEN OkOp(sum_update(o, ca_to_array(column.col), i))
           ELSE IF o.kind = "MIN" THEN OkOp(min_update(o, ca_to_array(column.col), i))
           ELSE IF o.kind = "MAX" THEN OkOp(max_update(o, ca_to_array(column.col), i))
           ELSE OkOp(avg_update(o, ca_to_array(column.col), i))
         : column \in {evaluate(o.column, record_batch)} })

\* The update_batch! macro: every non-null value of the column, in order.
RECURSIVE fold_column(_, _, _)
fold_column(o, column, i) ==
    IF i = array_len(column) THEN o
    ELSE fold_column(CASE o.kind = "SUM" -> sum_update(o, column, i)
                       [] o.kind = "MIN" -> min_update(o, column, i)
                       [] o.kind = "MAX" -> max_update(o, column, i)
                       [] o.kind = "AVG" -> avg_update(o, column, i),
                     column, i + 1)

\* AggrOperator::update_batch
aggr_update_batch(o, record_batch) ==
    Only({ IF column.status # "Ok" THEN PanicOp(o)
           ELSE IF o.kind = "COUNT"
                THEN OkOp([o EXCEPT !.count = o.count + array_len(ca_to_array(column.col))
                                                      - null_count(ca_to_array(column.col))])
           ELSE IF ca_data_type(column.col) \notin NumericTypes THEN PanicOp(o)
           ELSE OkOp(fold_column(o, ca_to_array(column.col), 0))
         : column \in {evaluate(o.column, record_batch)} })

\* avg!: sum as f64 / count as f64
avg(count, sum) == IF sum.dt = "Float64" THEN Rat(sum.v[1][1], sum.v[1][2] * count)
                   ELSE Rat(sum.v[1], count)

\* AggrOperator::evaluate
aggr_evaluate(o) ==
    CASE o.kind = "SUM"   -> o.sum
      [] o.kind = "AVG"   -> Scalar("Float64", Some(avg(o.count, o.sum)))
      [] o.kind = "COUNT" -> Scalar("UInt64", Some(o.count))
      [] o.kind = "MAX"   -> o.max

\* A clear that leaves the running SUM in place.
aggr_clear_keeps_sum(o) ==
    CASE o.kind = "SUM"   -> o
      [] o.kind = "AVG"   -> [o EXCEPT !.sum = Scalar(o.sum.dt, Some(Zero(o.sum.dt)))]
      [] o.kind = "COUNT" -> [o EXCEPT !.count = 0]

\* AggrOperator::clear
aggr_clear(o) ==
    CASE o.kind = "SUM"   -> [o EXCEPT !.sum = Scalar(o.sum.dt, Some(Zero(o.sum.dt)))]
      [] o.kind = "AVG"   -> [o EXCEPT !.sum = Scalar(o.sum.dt, Some(Zero(o.sum.dt)))]
      [] o.kind = "COUNT" -> [o EXCEPT !.count = 0]

\* AggrOperator::evaluate and AggrOperator::clear as the Result they return:
\* Min has todo!() for both, and Max::clear has it for UInt64 and Float64.
OkScalar(s) == [status |-> "Ok", scalar |-> s]
PanicScalar == [status |-> "Panic", scalar |-> ScalarNull]

operator_evaluate(o) ==
    IF o.kind = "MIN" THEN PanicScalar ELSE OkScalar(aggr_evaluate(o))

operator_clear(o) ==
    CASE o.kind = "MIN" -> PanicOp(o)
      [] o.kind = "MAX" -> IF o.max.dt = "Int64"
                           THEN OkOp([o EXCEPT !.max = Scalar("Int64", Some(TypeMin("Int64")))])
                           ELSE PanicOp(o)
      [] OTHER -> OkOp(aggr_clear(o))

----------------------------------------------------------------------------
(* Aggregation *)

\* The sign each operator is printed with in a field name.
operator_sign(o) ==
    CASE o = "Eq" -> "=" [] o = "Neq" -> "!=" [] o = "Lt" -> "<" [] o = "LtEq" -> "<="
      [] o = "Gt" -> ">" [] o = "GtEq" -> ">=" [] o = "And" -> "and" [] o = "Or" -> "or"
      [] o = "Add" -> "+" [] o = "Sub" -> "-" [] o = "Mul" -> "*" [] o = "Div" -> "/"
      [] o = "Mod" -> "%"

\* Scalar's Display: the value, or NULL.
scalar_to_string(s) == IF IsSome(s.v) THEN ToString(s.v[1]) ELSE "NULL"

\* PhysicalExpr::to_field, for expressions that evaluate on `input`.
RECURSIVE expr_to_field(_, _)
expr_to_field(expr, input) ==
    CASE expr.k = "Column"  -> input.schema[expr.index + 1]
      [] expr.k = "Literal" ->
            Field(scalar_to_string(expr.literal), scalar_to_field(expr.literal).dt, FALSE)
      [] expr.k = "Alias"   ->
            Field(expr.name, ca_data_type(evaluate(expr.expr, input).col), FALSE)
      [] expr.k = "Binary"  ->
            LET left == expr_to_field(expr.left, input)
                right == expr_to_field(expr.right, input)
            IN  Field(left.name \o " " \o operator_sign(expr.op) \o " " \o right.name,
                      IF expr.op \in ArithmeticOps THEN left.dt ELSE "Boolean", TRUE)

AggrOut(res, ops) == [result |-> res, ops |-> ops]

\* `for aggr_op in ops.iter_mut() { aggr_op.update(&batch, idx)? }`
RECURSIVE update_each(_, _, _, _)
update_each(ops, n, batch, idx) ==
    IF n > Len(ops) THEN [status |-> "Ok", ops |-> ops]
    ELSE Only({ IF u.status # "Ok" THEN [status |-> u.status, ops |-> ops]
                ELSE update_each([ops EXCEPT ![n] = u.op], n + 1, batch, idx)
              : u \in {aggr_update(ops[n], batch, idx)} })

\* `for idx in group_idx.iter() { ... }`
RECURSIVE update_rows(_, _, _)
update_rows(ops, batch, group_idx) ==
    IF group_idx = << >> THEN [status |-> "Ok", ops |-> ops]
    ELSE Only({ IF u.status # "Ok" THEN u ELSE update_rows(u.ops, batch, Tail(group_idx))
              : u \in {update_each(ops, 1, batch, Head(group_idx))} })

\* `for batch in &batches { for aggr_op in ops.iter_mut() { aggr_op.update_batch(batch)? } }`
RECURSIVE update_batch_each(_, _, _)
update_batch_each(ops, n, batch) ==
    IF n > Len(ops) THEN [status |-> "Ok", ops |-> ops]
    ELSE Only({ IF u.status # "Ok" THEN [status |-> u.status, ops |-> ops]
                ELSE update_batch_each([ops EXCEPT ![n] = u.op], n + 1, batch)
              : u \in {aggr_update_batch(ops[n], batch)} })

RECURSIVE update_batches(_, _)
update_batches(ops, batches) ==
    IF batches = << >> THEN [status |-> "Ok", ops |-> ops]
    ELSE Only({ IF u.status # "Ok" THEN u ELSE update_batches(u.ops, Tail(batches))
              : u \in {update_batch_each(ops, 1, Head(batches))} })

\* The non-null values of the group column: the keys of group_idxs.
group_keys(column) == {column.vals[i][1] : i \in {j \in DOMAIN column.vals : IsSome(column.vals[j])}}

\* A grouping that also files the rows with a null key under every group.
group_idx_with_null_keys(column, val) ==
    PositionsWhere([i \in DOMAIN column.vals |-> column.vals[i] \in {None, Some(val)}],
                   array_len(column))

\* group_idxs[val]: the row indices holding val, in row order.
group_idx_of(column, val) ==
    PositionsWhere([i \in DOMAIN column.vals |-> column.vals[i] = Some(val)], array_len(column))

\* The orders in which a HashMap may hand out the keys S.
RECURSIVE Orders(_)
Orders(S) == IF S = {} THEN {<< >>}
             ELSE UNION {{<<x>> \o rest : rest \in Orders(S \ {x})} : x \in S}

\* group_by_datatype!: the groups in map-iteration order `order`; each group is
\* folded, evaluated, cleared, and emitted as a one-row batch.
\* One group of group_by_datatype!: its one-row batch from the folded accumulators
\* `ops`, which are then cleared.
emit_group(column, val, ops, schema) ==
    try_new(schema,
            <<scalar_to_array(Scalar(column.dt, Some(val)), 1)>>
            \o [n \in DOMAIN ops |-> scalar_to_array(aggr_evaluate(ops[n]), 1)])

\* `for aggr_op in ops.iter_mut() { aggr_op.clear()? }`: the operators before
\* the first whose clear() panics are cleared.
clear_each(ops) ==
    LET failing == {n \in DOMAIN ops : operator_clear(ops[n]).status # "Ok"}
    IN  [status |-> IF failing = {} THEN "Ok" ELSE "Panic",
         ops |-> [n \in DOMAIN ops |->
                     IF \A f \in failing : n < f THEN operator_clear(ops[n]).op ELSE ops[n]]]

RECURSIVE group_by_datatype(_, _, _, _, _, _)
group_by_datatype(column, ops, batch, schema, order, batches) ==
    IF order = << >>
    THEN AggrOut(concat_batches(schema, batches), ops)
    ELSE Only({ IF u.status # "Ok" THEN AggrOut(Panic, u.ops)
                ELSE IF \E n \in DOMAIN u.ops : operator_evaluate(u.ops[n]).status # "Ok"
                THEN AggrOut(Panic, u.ops)
                ELSE Only({ IF cleared.status # "Ok" THEN AggrOut(Panic, cleared.ops)
                            ELSE IF one.status # "Ok" THEN AggrOut(one, cleared.ops)
                            ELSE group_by_datatype(column, cleared.ops,
                                                   batch, schema, Tail(order),
                                                   batches \o one.batches)
                          : one \in {emit_group(column, Head(order), u.ops, schema)},
                            cleared \in {clear_each(u.ops)} })
              : u \in {update_rows(ops, batch, group_idx_of(column, Head(order)))} })

GroupKeyTypes == {"Int64", "UInt64", "Boolean", "Utf8"}

\* The group column of the concatenated input, when the plan groups and the input
\* could be materialized.
group_column(p) ==
    LET input == execute(p.input)
        batch == concat_batches(p.schema, input.batches).batches[1]
    IN  ca_to_array(evaluate(p.group_expr[1], batch).col)

\* The output schema: the group field, then a field per accumulator.
aggregate_schema(p, ops, batch) ==
    (IF IsSome(p.group_expr) THEN <<expr_to_field(p.group_expr[1], batch)>> ELSE << >>)
    \o [n \in DOMAIN ops |-> aggr_to_field(ops[n], p.schema)]

\* The ungrouped path: every batch through every accumulator, then one row.
aggregate_all(ops, schema, batches) ==
    Only({ IF u.status # "Ok" THEN AggrOut(Panic, u.ops)
           ELSE IF \E n \in DOMAIN u.ops : operator_evaluate(u.ops[n]).status # "Ok"
           THEN AggrOut(Panic, u.ops)
           ELSE AggrOut(try_new(schema, [n \in DOMAIN u.ops |->
                                            scalar_to_array(aggr_evaluate(u.ops[n]), 1)]),
                        u.ops)
         : u \in {update_batches(ops, batches)} })

\* The grouped path, on the evaluated group column.
aggregate_groups(p, ops, order, batch, group) ==
    IF group.status # "Ok"
    THEN AggrOut(IF group.status = "Panic" THEN Panic ELSE Err(group.err), ops)
    ELSE IF \E n \in DOMAIN ops : ops[n].column.index >= Len(p.schema)
    THEN AggrOut(Panic, ops)
    ELSE IF ca_to_array(group.col).dt \notin GroupKeyTypes THEN AggrOut(Panic, ops)
    ELSE group_by_datatype(ca_to_array(group.col), ops, batch,
                           aggregate_schema(p, ops, batch), order, << >>)

\* Aggregation::execute past the execution of its input: `concat` is the input
\* concatenated into one batch.
aggregate_batches(p, ops, order, batches, concat) ==
    IF concat.status # "Ok" THEN AggrOut(concat, ops)
    ELSE IF IsSome(p.group_expr)
    THEN aggregate_groups(p, ops, order, concat.batches[1],
                          evaluate(p.group_expr[1], concat.batches[1]))
    ELSE IF \E n \in DOMAIN ops : ops[n].column.index >= Len(p.schema)
    THEN AggrOut(Panic, ops)
    ELSE aggregate_all(ops, aggregate_schema(p, ops, concat.batches[1]), batches)

\* Aggregation::execute with accumulators `ops`; `order` is the order in which the
\* map of groups is iterated.
aggregation_execute(p, ops, order) ==
    Only({ IF input.status # "Ok" THEN AggrOut(input, ops)
           ELSE aggregate_batches(p, ops, order, input.batches,
                                  concat_batches(p.schema, input.batches))
         : input \in {execute(p.input)} })

----------------------------------------------------------------------------
(* Aggregation over a scanned table *)

\* The number n as a value of type dt.
Num(dt, n) == IF dt = "Float64" THEN <<n, 1>> ELSE n

AggSchema(dt) == <<Field("g", "Int64", TRUE), Field("x", dt, TRUE)>>

\* Two groups, a null value inside a group, and a row whose group key is null.
AggRows(dt) ==
    { <<Some(1), Some(Num(dt, 1))>>, <<Some(1), Some(Num(dt, 2))>>,
      <<Some(2), Some(Num(dt, 2))>>, <<Some(2), None>>, <<None, Some(Num(dt, 1))>> }

\* Int64 tables in up to MaxBatches batches, Float64 tables in one batch.
AggTables ==
    TablesOf(AggSchema("Int64"), AggRows("Int64"), MaxAggRows, MaxBatches)
    \cup TablesOf(AggSchema("Float64"), AggRows("Float64"), MaxAggRows, 1)

\* The operators of an aggregation over column x of table t: SUM, AVG and COUNT.
AggOperators(t) ==
    <<Sum(t.schema[2].dt, ColumnExpr(1)), Avg(t.schema[2].dt, ColumnExpr(1)), Count(ColumnExpr(1))>>

InitAggregation ==
    /\ op = "Aggregation"
    /\ catalog = CatalogDefault
    /\ \E t \in AggTables, g \in {None, Some(ColumnExpr(0))} :
         /\ plan = Aggregation(Scan(t, None), g, t.schema)
         /\ aggr_expr = AggOperators(t)
    /\ result = Idle
    /\ prev = Idle
    /\ runs = 0
    /\ trail = << >>

\* One call of Aggregation::execute; the groups come in any order.
AggregationExecute ==
    /\ op = "Aggregation"
    /\ runs < MaxRuns
    /\ \E order \in Orders(IF IsSome(plan.group_expr) THEN group_keys(group_column(plan)) ELSE {}) :
         LET out == aggregation_execute(plan, aggr_expr, order)
         IN  /\ result' = out.result
             /\ aggr_expr' = out.ops
             /\ trail' = order
    /\ prev' = result
    /\ runs' = runs + 1
    /\ UNCHANGED <<catalog, op, plan>>

SpecAggregation == InitAggregation /\ [][AggregationExecute]_vars

Grouped == op = "Aggregation" /\ IsSome(plan.group_expr)

\* The whole input of the aggregation as one sequence of rows: keys and values.
InputKeys == Flatten([b \in DOMAIN plan.input.source.batches |->
                         plan.input.source.batches[b].columns[1].vals])
InputVals == Flatten([b \in DOMAIN plan.input.source.batches |->
                         plan.input.source.batches[b].columns[2].vals])
ValType == plan.input.source.schema[2].dt

\* The rows of group k whose value is not null.
Members(k) == {i \in DOMAIN InputKeys : InputKeys[i] = Some(k) /\ IsSome(InputVals[i])}

RECURSIVE SumOver(_)
SumOver(S) == IF S = {} THEN Zero(ValType)
              ELSE LET i == CHOOSE j \in S : TRUE
                   IN  Plus(ValType, InputVals[i][1], SumOver(S \ {i}))

\* Output columns of a grouped aggregation: key, SUM, AVG, COUNT.
OutKey(r) == result.batches[1].columns[1].vals[r]
OutSum(r) == result.batches[1].columns[2].vals[r]
OutAvg(r) == result.batches[1].columns[3].vals[r]
OutCount(r) == result.batches[1].columns[4].vals[r]
OutRows == 1..num_rows(result.batches[1])

\* C4: in every grouped execute, the SUM emitted for a group is the sum of the
\* non-null values of that group's rows, whatever groups came before it.
C4_GroupSumIsSumOfMembers ==
    (Grouped /\ runs > 0 /\ result.status = "Ok")
    => \A r \in OutRows : OutSum(r) = Some(SumOver(Members(OutKey(r)[1])))

\* Two groups were emitted, the second after a first one with a non-zero sum.
C4_Witness ==
    /\ Grouped /\ runs > 0 /\ result.status = "Ok"
    /\ num_rows(result.batches[1]) = 2
    /\ OutSum(1) # Some(Zero(ValType))
    /\ OutSum(2) # OutSum(1)
    /\ Some(Num(ValType, 3)) \in {OutSum(1), OutSum(2)}

\* C5: on the first execute of a plan, the AVG of every emitted row (each group, or
\* the single row of an ungrouped aggregation) is the sum of the group's non-null
\* values divided by their number.
C5_AvgIsSumOverCount ==
    (op = "Aggregation" /\ runs = 1 /\ result.status = "Ok")
    => \A r \in OutRows :
          LET members == IF Grouped THEN Members(OutKey(r)[1])
                         ELSE {i \in DOMAIN InputVals : IsSome(InputVals[i])}
              got == IF Grouped THEN OutAvg(r) ELSE result.batches[1].columns[2].vals[r]
          IN  got = Some(avg(Cardinality(members), Scalar(ValType, Some(SumOver(members)))))

RowsOf(res) ==
    IF res.status # "Ok" THEN {}
    ELSE {[c \in DOMAIN res.batches[1].columns |-> res.batches[1].columns[c].vals[r]] :
             r \in 1..num_rows(res.batches[1])}

\* C8: a second execute() of the same Aggregation over the same source returns what
\* the first returned.
C8_ExecuteTwiceSameResult ==
    (op = "Aggregation" /\ runs >= 2)
    => /\ result.status = prev.status
       /\ RowsOf(result) = RowsOf(prev)

----------------------------------------------------------------------------
(* A Count operator fed the batches of a scanned table *)

CountTables ==
    TablesOf(<<Field("c", "Int64", TRUE)>>, {<<None>>, <<Some(1)>>}, MaxAggRows, MaxBatches)
    \cup TablesOf(<<Field("c", "Utf8", TRUE)>>, {<<None>>, <<Some("a")>>}, MaxAggRows, MaxBatches)

InitCount ==
    /\ op = "Count"
    /\ catalog = CatalogDefault
    /\ plan \in {Scan(t, None) : t \in CountTables}
    /\ aggr_expr = <<Count(ColumnExpr(0))>>
    /\ result = Idle
    /\ prev = Idle
    /\ runs = 0
    /\ trail = 0

\* The number of non-null values among rows `rows` (1-based) of the column of batch b.
NonNull(b, rows) == Cardinality({i \in rows : IsSome(b.columns[1].vals[i])})

\* Count::update_batch on one of the batches; `trail` counts the non-null values visited.
CountUpdateBatch ==
    /\ op = "Count"
    /\ runs < MaxCount
    /\ \E b \in Range(plan.source.batches) :
         /\ aggr_expr' = <<aggr_update_batch(aggr_expr[1], b).op>>
         /\ trail' = trail + NonNull(b, 1..num_rows(b))
    /\ runs' = runs + 1
    /\ UNCHANGED <<catalog, op, plan, result, prev>>

\* Count::update on one row of one of the batches.
CountUpdate ==
    /\ op = "Count"
    /\ runs < MaxCount
    /\ \E b \in Range(plan.source.batches) : \E i \in 0..(num_rows(b) - 1) :
         /\ aggr_expr' = <<aggr_update(aggr_expr[1], b, i).op>>
         /\ trail' = trail + NonNull(b, {i + 1})
    /\ runs' = runs + 1
    /\ UNCHANGED <<catalog, op, plan, result, prev>>

SpecCount == InitCount /\ [][CountUpdateBatch \/ CountUpdate]_vars

\* update(b, i) for every row i of b, in row order.
RECURSIVE UpdateEveryRow(_, _, _)
UpdateEveryRow(o, b, i) ==
    IF i = num_rows(b) THEN o ELSE UpdateEveryRow(aggr_update(o, b, i).op, b, i + 1)

\* C7: from a fresh Count, after any calls of update_batch and update, evaluate()
\* is the UInt64 number of non-null values visited; and update_batch(b) moves the
\* count exactly as update(b, i) for every row i of b would.
C7_CountIsNonNullVisited ==
    op = "Count"
    => /\ aggr_evaluate(aggr_expr[1]) = Scalar("UInt64", Some(trail))
       /\ \A b \in Range(plan.source.batches) :
            aggr_update_batch(aggr_expr[1], b).op.count = UpdateEveryRow(aggr_expr[1], b, 0).count

\* Both calls were made, nulls were skipped, and something was counted.
C7_Witness ==
    /\ op = "Count" /\ runs = MaxCount
    /\ aggr_expr[1].count = 3
    /\ \E b \in Range(plan.source.batches) : NonNull(b, 1..num_rows(b)) = 1 /\ num_rows(b) = 2

----------------------------------------------------------------------------
(* Logical expressions and plans, DataFrame and QueryPlanner *)

LColumn(name) == [k |-> "LColumn", name |-> name]
LLiteral(literal) == [k |-> "LLiteral", literal |-> literal]
LBinaryExpr(left, o, right) == [k |-> "LBinaryExpr", left |-> left, op |-> o, right |-> right]
LAlias(name, expr) == [k |-> "LAlias", name |-> name, expr |-> expr]

AggregateFunc == {"SUM", "MIN", "MAX", "AVG", "COUNT"}
AggregateFuncExpr(func, expr) == [k |-> "LAggregateFuncExpr", func |-> func, expr |-> expr]

LScan(data_source, projection) ==
    [k |-> "LScan", data_source |-> data_source, projection |-> projection]
LProjection(input, exprs, schema) ==
    [k |-> "LProjection", input |-> input, exprs |-> exprs, schema |-> schema]
LSelection(input, expr) == [k |-> "LSelection", input |-> input, expr |-> expr]
LAggregation(input, group_expr, aggr_funcs, schema) ==
    [k |-> "LAggregation", input |-> input, group_expr |-> group_expr,
     aggr_expr |-> aggr_funcs, schema |-> schema]
LJoin(left, on, right, join_type, schema) ==
    [k |-> "LJoin", left |-> left, on |-> on, right |-> right,
     join_type |-> join_type, schema |-> schema]

\* LogicalPlan::schema
RECURSIVE logical_schema(_)
logical_schema(lp) ==
    CASE lp.k = "LScan"       -> lp.data_source.schema
      [] lp.k = "LSelection"  -> logical_schema(lp.input)
      [] lp.k = "LProjection" -> lp.schema
      [] lp.k = "LAggregation" -> lp.schema
      [] lp.k = "LJoin"       -> lp.schema

OkField(f) == [status |-> "Ok", err |-> "", field |-> f]
ErrField(e) == [status |-> "Err", err |-> e, field |-> Field("", "Null", TRUE)]

\* Schema::index_of: the index of the first field of that name.
index_of(schema, name) ==
    IF \E i \in DOMAIN schema : schema[i].name = name
    THEN [status |-> "Ok", err |-> "",
          index |-> (CHOOSE i \in DOMAIN schema :
                        /\ schema[i].name = name
                        /\ \A j \in 1..(i - 1) : schema[j].name # name) - 1]
    ELSE [status |-> "Err", err |-> "NoSuchField", index |-> 0]

\* Schema::find_field_by_name: the first field of that name.
find_field_by_name(schema, name) ==
    IF \E i \in DOMAIN schema : schema[i].name = name
    THEN OkField(schema[CHOOSE i \in DOMAIN schema :
                            /\ schema[i].name = name
                            /\ \A j \in 1..(i - 1) : schema[j].name # name])
    ELSE ErrField("NoSuchField")

\* LogicalExpr::to_field; a binary expression is BinaryExpr::to_field and an
\* aggregate function AggregateFuncExpr::to_field of logical_expr.rs.
RECURSIVE logical_to_field(_, _)
logical_to_field(expr, input) ==
    CASE expr.k = "LColumn"  -> find_field_by_name(logical_schema(input), expr.name)
      [] expr.k = "LLiteral" -> OkField(scalar_to_field(expr.literal))
      [] expr.k = "LAlias"   ->
            LET field == logical_to_field(expr.expr, input)
            IN  IF field.status # "Ok" THEN field
                ELSE OkField(Field(expr.name, field.field.dt, field.field.nullable))
      [] expr.k = "LBinaryExpr" ->
            LET left == logical_to_field(expr.left, input)
                right == IF expr.right.k = "LLiteral"
                         THEN OkField(Field(scalar_to_string(expr.right.literal), "Null", TRUE))
                         ELSE logical_to_field(expr.right, input)
            IN  IF left.status # "Ok" THEN left
                ELSE IF right.status # "Ok" THEN right
                ELSE OkField(Field(left.field.name \o " " \o right.field.name \o " "
                                       \o operator_sign(expr.op),
                                   "Boolean", TRUE))
      [] expr.k = "LAggregateFuncExpr" ->
            LET field == logical_to_field(expr.expr, input)
            IN  IF field.status # "Ok" THEN field
                ELSE CASE expr.func = "SUM" ->
                            OkField(Field("SUM(" \o field.field.name \o ")", field.field.dt, TRUE))
                       [] expr.func = "MIN" ->
                            OkField(Field("Min(" \o field.field.name \o ")", field.field.dt, TRUE))
                       [] expr.func = "MAX" ->
                            OkField(Field("Max(" \o field.field.name \o ")", field.field.dt, TRUE))
                       [] expr.func = "AVG" ->
                            OkField(Field("AVG(" \o field.field.name \o ")", field.field.dt, TRUE))
                       [] expr.func = "COUNT" ->
                            OkField(Field("COUNT(" \o field.field.name \o ")", "Int64", TRUE))

OkPlan(p) == [status |-> "Ok", err |-> "", plan |-> p]
ErrPlan(e) == [status |-> "Err", err |-> e, plan |-> << >>]
PanicPlan == [status |-> "Panic", err |-> "panic", plan |-> << >>]

\* DataFrame::project
project(df, exprs) ==
    LET fields == [i \in DOMAIN exprs |-> logical_to_field(exprs[i], df)]
    IN  IF \E i \in DOMAIN exprs : fields[i].status # "Ok"
        THEN ErrPlan(fields[CHOOSE i \in DOMAIN exprs :
                                /\ fields[i].status # "Ok"
                                /\ \A j \in 1..(i - 1) : fields[j].status = "Ok"].err)
        ELSE OkPlan(LProjection(df, exprs, [i \in DOMAIN exprs |-> fields[i].field]))

\* DataFrame::select
select(df, expr) == OkPlan(LSelection(df, expr))

\* DataFrame::aggregate: an aggregate whose field cannot be derived panics.
aggregate(df, group_expr, aggr_funcs) ==
    LET group == logical_to_field(group_expr, df)
        fields == [i \in DOMAIN aggr_funcs |-> logical_to_field(aggr_funcs[i], df)]
    IN  IF group.status # "Ok" THEN ErrPlan(group.err)
        ELSE IF \E i \in DOMAIN fields : fields[i].status # "Ok" THEN PanicPlan
        ELSE OkPlan(LAggregation(df, group_expr, aggr_funcs,
                                 <<group.field>> \o [i \in DOMAIN fields |-> fields[i].field]))

\* Schema::join
schema_join(schema, right) == schema \o right

\* A join that zips the key lists without comparing their lengths: the keys
\* past the shorter list are dropped.
join_zip_shorter(df, right, join_type, on) ==
    OkPlan(LJoin(df,
                 [i \in 1..(IF Len(on[1]) < Len(on[2]) THEN Len(on[1]) ELSE Len(on[2])) |->
                     <<on[1][i], on[2][i]>>],
                 right,
                 join_type,
                 schema_join(logical_schema(df), logical_schema(right))))

\* DataFrame::join; `on` is the pair of key lists.
join(df, right, join_type, on) ==
    IF Len(on[1]) # Len(on[2]) THEN ErrPlan("LogicalPlanError")
    ELSE OkPlan(LJoin(df,
                      [i \in 1..Len(on[1]) |-> <<on[1][i], on[2][i]>>],
                      right,
                      join_type,
                      schema_join(logical_schema(df), logical_schema(right))))

OkExpr(e) == [status |-> "Ok", err |-> "", expr |-> e]
ErrExpr(e) == [status |-> "Err", err |-> e, expr |-> << >>]

\* QueryPlanner::create_physical_expr
RECURSIVE create_physical_expr(_, _)
create_physical_expr(input, expr) ==
    CASE expr.k = "LBinaryExpr" ->
            LET left_expr == create_physical_expr(input, expr.left)
                right_expr == create_physical_expr(input, expr.right)
            IN  IF left_expr.status # "Ok" THEN left_expr
                ELSE IF right_expr.status # "Ok" THEN right_expr
                ELSE OkExpr(BinaryExpr(left_expr.expr, expr.op, right_expr.expr))
      [] expr.k = "LLiteral" -> OkExpr(LiteralExpr(expr.literal))
      [] expr.k = "LAlias" ->
            LET inner == create_physical_expr(input, expr.expr)
            IN  IF inner.status # "Ok" THEN inner ELSE OkExpr(AliasExpr(expr.name, inner.expr))
      [] expr.k = "LColumn" ->
            LET schema == logical_schema(input)
            IN  IF \E i \in DOMAIN schema : schema[i].name = expr.name
                THEN OkExpr(ColumnExpr((CHOOSE i \in DOMAIN schema :
                                            /\ schema[i].name = expr.name
                                            /\ \A j \in 1..(i - 1) : schema[j].name # expr.name) - 1))
                ELSE ErrExpr("NoSuchColumn")

\* The loops of the Join branch over the fields of one side: every field of
\* that name assigns the index, so the last one stands; -1 when there is none.
field_idx(schema, col) ==
    IF \E i \in DOMAIN schema : schema[i].name = col
    THEN (CHOOSE i \in DOMAIN schema :
            /\ schema[i].name = col
            /\ \A j \in (i + 1)..Len(schema) : schema[j].name # col) - 1
    ELSE -1

\* The Join branch's loop over join.on.  Both indices of a pair are looked up
\* under left_col, the right one in the right schema; the first pair with an
\* index of -1 ends the loop with NoSuchColumn.
RECURSIVE join_on(_, _, _)
join_on(left, right, on) ==
    IF on = << >> THEN [status |-> "Ok", err |-> "", on |-> << >>]
    ELSE LET left_col == Head(on)[1]
             left_idx == field_idx(plan_schema(left), left_col)
             right_idx == field_idx(plan_schema(right), left_col)
             rest == join_on(left, right, Tail(on))
         IN  IF left_idx = -1 \/ right_idx = -1
             THEN [status |-> "Err", err |-> "NoSuchColumn", on |-> << >>]
             ELSE IF rest.status # "Ok" THEN rest
             ELSE [status |-> "Ok", err |-> "",
                   on |-> << <<ColumnExpr(left_idx), ColumnExpr(right_idx)>> >> \o rest.on]

\* The Aggregation branch's loop over aggr_expr: each aggregate's argument must
\* plan to a ColumnExpr, and the accumulator is made for the group field's type.
RECURSIVE aggr_exprs(_, _, _)
aggr_exprs(input, field, aggr_funcs) ==
    IF aggr_funcs = << >> THEN [status |-> "Ok", err |-> "", ops |-> << >>]
    ELSE LET aggr_func_expr == Head(aggr_funcs)
             column == create_physical_expr(input, aggr_func_expr.expr)
             rest == aggr_exprs(input, field, Tail(aggr_funcs))
         IN  IF column.status # "Ok" THEN [status |-> "Err", err |-> column.err, ops |-> << >>]
             ELSE IF column.expr.k # "Column"
                     \/ (aggr_func_expr.func # "COUNT" /\ field.dt \notin NumericTypes)
             THEN [status |-> "Panic", err |-> "panic", ops |-> << >>]
             ELSE IF rest.status # "Ok" THEN rest
             ELSE [status |-> "Ok", err |-> "",
                   ops |-> <<CASE aggr_func_expr.func = "SUM" -> Sum(field.dt, column.expr)
                               [] aggr_func_expr.func = "MIN" -> Min(field.dt, column.expr)
                               [] aggr_func_expr.func = "MAX" -> Max(field.dt, column.expr)
                               [] aggr_func_expr.func = "AVG" -> Avg(field.dt, column.expr)
                               [] aggr_func_expr.func = "COUNT" -> Count(column.expr)>>
                           \o rest.ops]

\* The Aggregation branch calls Aggregation::new(input, Some(group_expr),
\* aggr_expr) and names no schema, while the constructor takes one.  The schemas
\* the branch has at hand are the logical node's cached one and the planned
\* input's, which is what Aggregation::execute reads its schema as.
AggregationSchemaArgs == {"aggreagtion.schema", "input.schema()"}

\* QueryPlanner::create_physical_plan; schema_arg says which schema the
\* Aggregation branch hands to Aggregation::new.
RECURSIVE create_physical_plan(_, _)
create_physical_plan(logical_plan, schema_arg) ==
    CASE logical_plan.k = "LScan" ->
            OkPlan(Scan(logical_plan.data_source, logical_plan.projection))
      [] logical_plan.k = "LProjection" ->
            LET exprs == [i \in DOMAIN logical_plan.exprs |->
                            create_physical_expr(logical_plan.input, logical_plan.exprs[i])]
                input == create_physical_plan(logical_plan.input, schema_arg)
            IN  IF \E i \in DOMAIN exprs : exprs[i].status # "Ok" THEN PanicPlan
                ELSE IF input.status # "Ok" THEN input
                ELSE OkPlan(ProjectionExpr(input.plan, logical_plan.schema,
                                           [i \in DOMAIN exprs |-> exprs[i].expr]))
      [] logical_plan.k = "LSelection" ->
            LET expr == create_physical_expr(logical_plan.input, logical_plan.expr)
                input == create_physical_plan(logical_plan.input, schema_arg)
            IN  IF expr.status # "Ok" THEN ErrPlan(expr.err)
                ELSE IF input.status # "Ok" THEN input
                ELSE OkPlan(Selection(input.plan, expr.expr))
      [] logical_plan.k = "LAggregation" ->
            LET field == logical_to_field(logical_plan.group_expr, logical_plan.input)
                group_expr == create_physical_expr(logical_plan.input, logical_plan.group_expr)
            IN  IF field.status # "Ok" THEN ErrPlan(field.err)
                ELSE IF group_expr.status # "Ok" THEN ErrPlan(group_expr.err)
                ELSE LET aggr_ops == aggr_exprs(logical_plan.input, field.field,
                                                logical_plan.aggr_expr)
                         input == create_physical_plan(logical_plan.input, schema_arg)
                     IN  IF aggr_ops.status = "Panic" THEN PanicPlan
                         ELSE IF aggr_ops.status # "Ok" THEN ErrPlan(aggr_ops.err)
                         ELSE IF input.status # "Ok" THEN input
                         ELSE OkPlan(AggregationOf(input.plan, Some(group_expr.expr), aggr_ops.ops,
                                                   IF schema_arg = "input.schema()"
                                                   THEN plan_schema(input.plan)
                                                   ELSE logical_plan.schema))
      [] logical_plan.k = "LJoin" ->
            LET left == create_physical_plan(logical_plan.left, schema_arg)
                right == create_physical_plan(logical_plan.right, schema_arg)
            IN  IF left.status # "Ok" THEN left
                ELSE IF right.status # "Ok" THEN right
                ELSE LET on == join_on(left.plan, right.plan, logical_plan.on)
                     IN  IF on.status # "Ok" THEN ErrPlan(on.err)
                         ELSE OkPlan(NestedLoopJoin(left.plan, right.plan, on.on,
                                                    logical_plan.schema))

----------------------------------------------------------------------------
(* Projection over a scanned table *)

ProjSchema == <<Field("id", "Int64", TRUE), Field("score", "Float64", TRUE)>>

ProjRows == {<<Some(1), Some(<<1, 1>>)>>, <<Some(2), None>>, <<None, Some(<<5, 2>>)>>}

ProjTables == TablesOf(ProjSchema, ProjRows, MaxProjRows, MaxBatches)

\* The expressions handed to DataFrame::project.
ProjLogicalExprs ==
    { LColumn("id"),
      LColumn("score"),
      LLiteral(Scalar("Float64", Some(<<1, 1>>))),
      LBinaryExpr(LColumn("score"), "Add", LLiteral(Scalar("Float64", Some(<<1, 1>>)))),
      LBinaryExpr(LColumn("id"), "Gt", LLiteral(Scalar("Int64", Some(1)))),
      LAlias("n", LColumn("id")) }

\* The expressions handed to ProjectionExpr::new: those above as the planner
\* translates them, and an addition whose operands differ in type.
ProjPhysicalExprs ==
    {create_physical_expr(LScan(Table(ProjSchema, << >>), None), e).expr : e \in ProjLogicalExprs}
    \cup {BinaryExpr(ColumnExpr(0), "Add", LiteralExpr(Scalar("Float64", Some(<<1, 1>>))))}

\* The schema a caller of ProjectionExpr::new derives from its expressions.
FieldsOf(exprs) ==
    [i \in DOMAIN exprs |-> expr_to_field(exprs[i], BatchOfRows(ProjSchema, << >>))]

\* A projection is built by DataFrame::project and the planner (`trail` keeps the
\* logical plan), or by ProjectionExpr::new with the fields of its expressions or
\* with no fields.
InitProjection ==
    /\ op = "Projection"
    /\ catalog = CatalogDefault
    /\ \E t \in ProjTables :
         \/ \E exprs \in SeqsUpTo(ProjLogicalExprs, MaxExprs) :
              LET df == project(LScan(t, None), exprs)
              IN  /\ df.status = "Ok"
                  /\ create_physical_plan(df.plan, "input.schema()").status = "Ok"
                  /\ plan = create_physical_plan(df.plan, "input.schema()").plan
                  /\ trail = Some(df.plan)
         \/ \E exprs \in SeqsUpTo(ProjPhysicalExprs, MaxExprs) :
            \E schema \in {<< >>, FieldsOf(exprs)} :
              /\ plan = ProjectionExpr(Scan(t, None), schema, exprs)
              /\ trail = None
    /\ aggr_expr = << >>
    /\ result = Idle
    /\ prev = Idle
    /\ runs = 0

SpecProjection == InitProjection /\ [][Execute]_vars

\* The value of `expr` on row j (1-based) of `batch`, row by row: a column gives
\* the row's value, a literal its own value, a binary expression the operation on
\* the two row values, null when either is null.
RECURSIVE RowValue(_, _, _)
RowValue(expr, batch, j) ==
    CASE expr.k = "Column"  -> batch.columns[expr.index + 1].vals[j]
      [] expr.k = "Literal" -> expr.literal.v
      [] expr.k = "Alias"   -> RowValue(expr.expr, batch, j)
      [] expr.k = "Binary"  ->
            LET l == RowValue(expr.left, batch, j)
                r == RowValue(expr.right, batch, j)
                dt == expr_to_field(expr.left, batch).dt
            IN  IF ~IsSome(l) \/ ~IsSome(r) THEN None
                ELSE IF expr.op \in ArithmeticOps THEN Some(Arith(expr.op, dt, l[1], r[1]))
                ELSE Some(Compare(expr.op, dt, l[1], r[1]))

\* Every binary expression below `expr` has operands of one type.
RECURSIVE WellTyped(_)
WellTyped(expr) ==
    CASE expr.k = "Binary" ->
            /\ WellTyped(expr.left) /\ WellTyped(expr.right)
            /\ expr_to_field(expr.left, BatchOfRows(ProjSchema, << >>)).dt
                   = expr_to_field(expr.right, BatchOfRows(ProjSchema, << >>)).dt
      [] expr.k = "Alias" -> WellTyped(expr.expr)
      [] OTHER -> TRUE

ProjInput == plan.input.source.batches

\* The expressions of the projection are well typed and its schema carries their
\* types.
ProjWellFormed ==
    /\ \A i \in DOMAIN plan.expr : WellTyped(plan.expr[i])
    /\ [i \in DOMAIN plan.schema |-> plan.schema[i].dt]
           = [i \in DOMAIN plan.expr |-> FieldsOf(plan.expr)[i].dt]

C10_ProjectedTypesMatchSchema ==
    (op = "Projection" /\ runs = 1 /\ IsSome(trail))
    => /\ result.status = "Ok"
       /\ \A b \in DOMAIN result.batches : \A i \in DOMAIN plan.schema :
            result.batches[b].columns[i].dt = plan.schema[i].dt

----------------------------------------------------------------------------
(* DataFrame calls and the plans the QueryPlanner makes of them.  `trail`   *)
(* keeps the arguments of the DataFrame call, `prev` what the call          *)
(* returned, `result` what create_physical_plan returned for that plan, and *)
(* `plan` the physical plan when there is one.                              *)

PlanFields == {Field("a", "Int64", TRUE), Field("b", "Float64", TRUE), Field("a", "Utf8", TRUE)}

PlanSchemas == SeqsUpTo(PlanFields, MaxFields)

PlanRightSchemas ==
    { <<Field("b", "Float64", TRUE)>>,
      <<Field("b", "Float64", TRUE), Field("a", "Int64", TRUE)>>,
      <<Field("a", "Utf8", TRUE), Field("b", "Float64", TRUE), Field("a", "Int64", TRUE)>> }

PlanKeys == SeqsUpTo({"a", "b"}, MaxKeys)

JoinCalls ==
    {[call |-> "join", df |-> LScan(Table(l, << >>), None), right |-> LScan(Table(r, << >>), None),
      join_type |-> "Inner", on |-> <<lk, rk>>] :
        l \in PlanSchemas, r \in PlanRightSchemas, lk \in PlanKeys, rk \in PlanKeys}

\* The expressions handed to DataFrame::project and DataFrame::select.
PlanExprs == {LColumn("a"), LColumn("b"), LAlias("n", LColumn("a"))}

ProjectCalls ==
    {[call |-> "project", df |-> LScan(Table(l, << >>), None), exprs |-> exprs] :
        l \in PlanSchemas, exprs \in SeqsUpTo(PlanExprs, MaxExprs)}

PlanAggrExprs == {AggregateFuncExpr(func, LColumn(c)) : func \in AggregateFunc, c \in {"a", "b"}}

AggregateCalls ==
    {[call |-> "aggregate", df |-> LScan(Table(l, << >>), None), group_expr |-> LColumn(g),
      aggr_expr |-> aggr_funcs] :
        l \in PlanRightSchemas, g \in {"a", "b"}, aggr_funcs \in SeqsUpTo(PlanAggrExprs, MaxExprs)}

SelectCalls ==
    {[call |-> "select", df |-> LScan(Table(l, << >>), None), expr |-> expr] :
        l \in PlanSchemas, expr \in PlanExprs}

InitPlanner ==
    /\ op = "DataFrame"
    /\ catalog = CatalogDefault
    /\ trail \in JoinCalls \cup ProjectCalls \cup SelectCalls \cup AggregateCalls
    /\ plan = << >>
    /\ aggr_expr = << >>
    /\ result = Idle
    /\ prev = Idle
    /\ runs = 0

\* df.join(right, join_type, on)
DataFrameJoin ==
    /\ op = "DataFrame"
    /\ trail.call = "join"
    /\ prev' = join(trail.df, trail.right, trail.join_type, trail.on)
    /\ op' = "QueryPlanner"
    /\ UNCHANGED <<catalog, plan, aggr_expr, result, runs, trail>>

\* df.project(exprs)
DataFrameProject ==
    /\ op = "DataFrame"
    /\ trail.call = "project"
    /\ prev' = project(trail.df, trail.exprs)
    /\ op' = "QueryPlanner"
    /\ UNCHANGED <<catalog, plan, aggr_expr, result, runs, trail>>

\* df.aggregate(group_expr, aggr_expr)
DataFrameAggregate ==
    /\ op = "DataFrame"
    /\ trail.call = "aggregate"
    /\ prev' = aggregate(trail.df, trail.group_expr, trail.aggr_expr)
    /\ op' = "QueryPlanner"
    /\ UNCHANGED <<catalog, plan, aggr_expr, result, runs, trail>>

\* df.select(expr)
DataFrameSelect ==
    /\ op = "DataFrame"
    /\ trail.call = "select"
    /\ prev' = select(trail.df, trail.expr)
    /\ op' = "QueryPlanner"
    /\ UNCHANGED <<catalog, plan, aggr_expr, result, runs, trail>>

\* QueryPlanner::create_physical_plan(&df.plan), for a DataFrame that was built.
CreatePhysicalPlan ==
    /\ op = "QueryPlanner"
    /\ prev.status = "Ok"
    /\ \E schema_arg \in AggregationSchemaArgs :
            result' = create_physical_plan(prev.plan, schema_arg)
    /\ plan' = result'.plan
    /\ aggr_expr' = IF result'.status = "Ok" /\ plan'.k = "Aggregation"
                     THEN plan'.aggr_expr ELSE aggr_expr
    /\ op' = "Planned"
    /\ runs' = runs + 1
    /\ UNCHANGED <<catalog, prev, trail>>

NextPlanner ==
    \/ DataFrameJoin
    \/ DataFrameProject
    \/ DataFrameSelect
    \/ DataFrameAggregate
    \/ CreatePhysicalPlan

SpecPlanner == InitPlanner /\ [][NextPlanner]_vars

Names(schema) == {schema[i].name : i \in DOMAIN schema}

PlannedJoin == op = "Planned" /\ trail.call = "join"

\* C11: planning a Join fails with NoSuchColumn exactly when some key pair names
\* a left key that is not in the left child's schema or a right key that is not
\* in the right child's schema; otherwise pair i of the physical `on` holds the
\* index of a left field named by the i-th left key and the index of a right
\* field named by the i-th right key.
C11_JoinKeysResolveBySide ==
    PlannedJoin =>
        LET left == logical_schema(trail.df)
            right == logical_schema(trail.right)
            on == prev.plan.on
            absent == \E i \in DOMAIN on : on[i][1] \notin Names(left) \/ on[i][2] \notin Names(right)
        IN  /\ result.status \in {"Ok", "Err"}
            /\ result.status = "Err" <=> absent
            /\ result.status = "Err" => result.err = "NoSuchColumn"
            /\ result.status = "Ok" =>
                    /\ Len(plan.on) = Len(on)
                    /\ \A i \in DOMAIN on :
                          /\ plan.on[i][1].index + 1 \in DOMAIN left
                          /\ left[plan.on[i][1].index + 1].name = on[i][1]
                          /\ plan.on[i][2].index + 1 \in DOMAIN right
                          /\ right[plan.on[i][2].index + 1].name = on[i][2]

\* The column expression a logical expression was planned to, under its aliases.
RECURSIVE Unaliased(_)
Unaliased(e) == IF e.k \in {"LAlias", "Alias"} THEN Unaliased(e.expr) ELSE e

FirstMatch(schema, name, e) ==
    /\ index_of(schema, name).status = "Ok"
    /\ e = ColumnExpr(index_of(schema, name).index)

\* C12: a planned Column(name) is ColumnExpr(i) with i the lowest index of a field
\* of that name, which is what Schema::index_of returns, and planning it fails
\* with NoSuchColumn when the schema has no such field; the indices of a planned
\* join key pair are those same first-match indices of the two key names.
C12_ColumnsResolveToFirstMatch ==
    /\ (op = "Planned" /\ trail.call = "select") =>
            LET schema == logical_schema(trail.df)
                name == Unaliased(trail.expr).name
            IN  IF name \in Names(schema)
                THEN result.status = "Ok" /\ FirstMatch(schema, name, Unaliased(plan.expr))
                ELSE result.status = "Err" /\ result.err = "NoSuchColumn"
    /\ (op = "Planned" /\ trail.call = "project" /\ result.status = "Ok") =>
            \A i \in DOMAIN trail.exprs :
                FirstMatch(logical_schema(trail.df), Unaliased(trail.exprs[i]).name,
                           Unaliased(plan.expr[i]))
    /\ (PlannedJoin /\ result.status = "Ok") =>
            \A i \in DOMAIN plan.on :
                /\ FirstMatch(logical_schema(trail.df), prev.plan.on[i][1], plan.on[i][1])
                /\ FirstMatch(logical_schema(trail.right), prev.plan.on[i][2], plan.on[i][2])

\* C13: the physical plan made of a logical Projection, Aggregate or Join
\* reports the schema the logical plan caches.
C13_PlannedSchemaIsLogicalSchema ==
    (op = "Planned" /\ trail.call \in {"project", "aggregate", "join"} /\ result.status = "Ok")
        => plan_schema(plan) = logical_schema(prev.plan)

----------------------------------------------------------------------------
(* BinaryExpr::evaluate on one batch.  `plan` is the expression, `trail` the *)
(* batch it is evaluated on and `result` what evaluate returned.             *)

EvalSchema ==
    <<Field("i", "Int64", TRUE), Field("f", "Float64", TRUE),
      Field("b", "Boolean", TRUE), Field("s", "Utf8", TRUE)>>

EvalRows ==
    { <<Some(1), Some(<<1, 1>>), Some(TRUE), Some("a")>>,
      <<Some(2), Some(<<5, 2>>), Some(FALSE), Some("b")>>,
      <<None, None, None, None>> }

EvalBatches == {BatchOfRows(EvalSchema, rows) : rows \in SeqsUpTo(EvalRows, MaxEvalRows)}

\* Columns of every type, literals of every type, and two nested expressions.
EvalOperands ==
    << ColumnExpr(0), ColumnExpr(1), ColumnExpr(2), ColumnExpr(3),
       LiteralExpr(Scalar("Int64", Some(1))),
       LiteralExpr(Scalar("UInt64", Some(1))),
       LiteralExpr(Scalar("Float64", Some(<<1, 1>>))),
       LiteralExpr(Scalar("Boolean", Some(TRUE))),
       LiteralExpr(Scalar("Utf8", Some("a"))),
       LiteralExpr(ScalarNull),
       BinaryExpr(ColumnExpr(0), "Gt", LiteralExpr(Scalar("Int64", Some(1)))),
       BinaryExpr(ColumnExpr(0), "Add", LiteralExpr(Scalar("Int64", Some(1)))) >>

InitEvaluate ==
    /\ op = "BinaryExpr"
    /\ catalog = CatalogDefault
    /\ \E l \in DOMAIN EvalOperands, o \in Operators, r \in DOMAIN EvalOperands :
            plan = BinaryExpr(EvalOperands[l], o, EvalOperands[r])
    /\ trail \in EvalBatches
    /\ aggr_expr = << >>
    /\ result = Idle
    /\ prev = Idle
    /\ runs = 0

\* expr.evaluate(&batch)
Evaluate ==
    /\ op = "BinaryExpr"
    /\ runs = 0
    /\ result' = evaluate(plan, trail)
    /\ runs' = runs + 1
    /\ UNCHANGED <<catalog, op, plan, aggr_expr, prev, trail>>

SpecEvaluate == InitEvaluate /\ [][Evaluate]_vars

\* The type an operand of the evaluated expression has, read off the batch's
\* schema and the literals.
RECURSIVE OperandType(_)
OperandType(e) ==
    CASE e.k = "Column"  -> trail.schema[e.index + 1].dt
      [] e.k = "Literal" -> e.literal.dt
      [] e.k = "Binary"  -> IF e.op \in ArithmeticOps THEN OperandType(e.left) ELSE "Boolean"

Evaluated == op = "BinaryExpr" /\ runs = 1

\* C14: whatever the operator, a binary expression whose two operands evaluate
\* to different types returns IntervalError and no column.
C14_MismatchedOperandsAreAnError ==
    (/\ Evaluated
     /\ evaluate(plan.left, trail).status = "Ok"
     /\ evaluate(plan.right, trail).status = "Ok"
     /\ OperandType(plan.left) # OperandType(plan.right))
        => result = ErrCol("IntervalError")

\* An Int64 column and a UInt64 literal were added on a batch with a row.
C14_Witness ==
    /\ Evaluated
    /\ plan.left = ColumnExpr(0)
    /\ plan.right = LiteralExpr(Scalar("UInt64", Some(1)))
    /\ plan.op = "Add"
    /\ num_rows(trail) = 1
    /\ result = ErrCol("IntervalError")

----------------------------------------------------------------------------
\* The expressions a Projection or a Selection evaluates on each input batch.
ExprsOf(p) == IF p.k = "Projection" THEN p.expr ELSE <<p.expr>>

\* Some expression of the executed plan fails with an error on some input batch.
EvaluationFails ==
    /\ op \in {"Projection", "Selection"}
    /\ runs = 1
    /\ plan.k = "Projection" => plan.schema # << >>
    /\ \E b \in Range(plan.input.source.batches), e \in Range(ExprsOf(plan)) :
            evaluate(e, b).status = "Err"

\* C15: when an expression of a projection or the predicate of a selection
\* fails to evaluate, execute() returns an Err to its caller and does not panic.
C15_FailuresAreReturnedAsErr == EvaluationFails => result.status = "Err"

----------------------------------------------------------------------------
JoinExecuted == op = "NestedLoopJoin" /\ runs > 0

\* The data types of the two columns key pair i names.
KeyTypes(i) ==
    <<plan_schema(plan.left)[plan.on[i][1].index + 1].dt,
      plan_schema(plan.right)[plan.on[i][2].index + 1].dt>>

ChildrenExecute == execute(plan.left).status = "Ok" /\ execute(plan.right).status = "Ok"

----------------------------------------------------------------------------
\* join(R, L, b = a) for the executed join(L, R, a = b).
Swapped(p) ==
    NestedLoopJoin(p.right, p.left, << <<p.on[1][2], p.on[1][1]>> >>,
                   plan_schema(p.right) \o plan_schema(p.left))

\* The rows of a joined batch as pairs <<outer row, inner row>>, the outer row
\* being the first n columns.
RowPairs(batch, n) ==
    { << [c \in 1..n |-> batch.columns[c].vals[r]],
         [c \in 1..(Len(batch.columns) - n) |-> batch.columns[n + c].vals[r]] >>
      : r \in 1..num_rows(batch) }

\* The values of the left key column over all the batches of the left table.
LeftKeyValues ==
    Flatten([b \in DOMAIN plan.left.source.batches |->
                plan.left.source.batches[b].columns[plan.on[1][1].index + 1].vals])

\* One pair of Int64 key columns over scanned tables, the left keys all different.
SingleKeyUniqueLeft ==
    /\ JoinExecuted
    /\ Len(plan.on) = 1
    /\ KeyTypes(1) = <<"Int64", "Int64">>
    /\ plan.left.projection = None /\ plan.right.projection = None
    /\ \A i, j \in DOMAIN LeftKeyValues : i # j => LeftKeyValues[i] # LeftKeyValues[j]

\* C17: for one key pair and unique left keys, join(L, R, a = b) and
\* join(R, L, b = a) both return or both fail, and when they return, the
\* combinations of a left row and a right row in their batches are the same.
C17_JoinCommutesOnUniqueLeftKeys ==
    SingleKeyUniqueLeft =>
        LET swapped == execute(Swapped(plan))
        IN  /\ swapped.status = result.status
            /\ result.status = "Ok" =>
                    RowPairs(result.batches[1], Len(plan_schema(plan.left)))
                        = {<<pair[2], pair[1]>> :
                              pair \in RowPairs(swapped.batches[1], Len(plan_schema(plan.right)))}

\* Two left rows with the keys 1 and 2 were joined with two right rows with the
\* keys 2 and 1, and two rows came back.
C17_Witness ==
    /\ SingleKeyUniqueLeft
    /\ result.status = "Ok"
    /\ LeftKeyValues = <<Some(1), Some(2)>>
    /\ plan.right.source.batches # << >>
    /\ plan.right.source.batches[1].columns[plan.on[1][2].index + 1].vals = <<Some(2), Some(1)>>
    /\ num_rows(result.batches[1]) = 2

----------------------------------------------------------------------------
JoinCalled == op \in {"QueryPlanner", "Planned"} /\ trail.call = "join"

\* C18: DataFrame::join returns LogicalPlanError and no plan exactly when the
\* two key lists differ in length; otherwise it returns a Join of the two plans
\* whose `on` pairs the i-th left key with the i-th right key and whose schema is
\* the left plan's fields followed by the right plan's.
C18_JoinPairsKeysAndConcatenatesSchemas ==
    JoinCalled =>
        IF Len(trail.on[1]) # Len(trail.on[2])
        THEN prev = ErrPlan("LogicalPlanError")
        ELSE /\ prev.status = "Ok"
             /\ prev.plan.k = "LJoin"
             /\ prev.plan.left = trail.df /\ prev.plan.right = trail.right
             /\ Len(prev.plan.on) = Len(trail.on[1])
             /\ \A i \in DOMAIN prev.plan.on : prev.plan.on[i] = <<trail.on[1][i], trail.on[2][i]>>
             /\ logical_schema(prev.plan)
                    = logical_schema(trail.df) \o logical_schema(trail.right)

\* Two keys on each side, differently named, over tables of two fields each.
C18_Witness ==
    /\ JoinCalled
    /\ prev.status = "Ok"
    /\ trail.on = << <<"a", "b">>, <<"b", "a">> >>
    /\ Len(logical_schema(trail.df)) = 2 /\ Len(logical_schema(trail.right)) = 2

----------------------------------------------------------------------------
AggregateCalled ==
    op \in {"QueryPlanner", "Planned"} /\ trail.call = "aggregate" /\ prev.status = "Ok"

\* The field of the table the i-th aggregate of the call is taken over.
AggregatedField(i) == find_field_by_name(logical_schema(trail.df), trail.aggr_expr[i].expr.name).field

\* C19: the field a logical aggregate derives is Float64 for AVG, UInt64 for
\* COUNT and of the input's type for SUM, MIN and MAX, and it has the name and
\* the type of the field the planned physical operator derives with to_field.
C19_AggregateFieldsAgree ==
    /\ AggregateCalled =>
            \A i \in DOMAIN trail.aggr_expr :
                logical_schema(prev.plan)[i + 1].dt
                    = CASE trail.aggr_expr[i].func = "AVG"   -> "Float64"
                        [] trail.aggr_expr[i].func = "COUNT" -> "UInt64"
                        [] OTHER                             -> AggregatedField(i).dt
    /\ (AggregateCalled /\ op = "Planned" /\ result.status = "Ok") =>
            \A i \in DOMAIN trail.aggr_expr :
                LET to_field == aggr_to_field(plan.aggr_expr[i], plan_schema(plan.input))
                IN  /\ logical_schema(prev.plan)[i + 1].name = to_field.name
                    /\ logical_schema(prev.plan)[i + 1].dt = to_field.dt

----------------------------------------------------------------------------
\* The name an operand of a logical binary expression goes by: a literal's
\* printed value, any other expression's field name.
OperandName(e, input) ==
    IF e.k = "LLiteral" THEN scalar_to_string(e.literal) ELSE logical_to_field(e, input).field.name

\* C20: the field of a binary expression is named "left op right", and the
\* logical expression and the physical expression planned from it derive the
\* same name.
C20_BinaryFieldNamesAgree ==
    (op = "Projection" /\ trail # None) =>
        \A i \in DOMAIN trail[1].exprs :
            trail[1].exprs[i].k = "LBinaryExpr" =>
                LET e == trail[1].exprs[i]
                    name == logical_schema(trail[1])[i].name
                IN  /\ name = OperandName(e.left, trail[1].input) \o " " \o operator_sign(e.op)
                                \o " " \o OperandName(e.right, trail[1].input)
                    /\ name = expr_to_field(plan.expr[i], BatchOfRows(ProjSchema, << >>)).name

----------------------------------------------------------------------------
(* Catalog: add_csv_table, get_table_by_name, get_table_df *)

MaxCalls == 3

TableNames == {"t", "T", "u"}

CsvSchema == <<Field("id", "Int64", TRUE)>>

\* The files of the working directory: two that parse to different tables
\* and one whose contents the CSV reader rejects.  "missing.csv" is not
\* there.
CsvFiles ==
    [ f \in {"a.csv", "b.csv", "bad.csv"} |->
        CASE f = "a.csv" -> Some(Table(CsvSchema, <<BatchOfRows(CsvSchema, <<<<Some(1)>>>>)>>))
          [] f = "b.csv" -> Some(Table(CsvSchema, <<BatchOfRows(CsvSchema, <<<<Some(2)>>>>)>>))
          [] f = "bad.csv" -> None ]

FileNames == DOMAIN CsvFiles \cup {"missing.csv"}

OkTable(t) == [status |-> "Ok", err |-> "", table |-> t]
ErrTable(e) == [status |-> "Err", err |-> e, table |-> << >>]
PanicTable == [status |-> "Panic", err |-> "panic", table |-> << >>]

\* CSVTable::try_create_table: File::open(..).unwrap() panics on a file that
\* cannot be opened; a reader error is returned with `?`.
try_create_table(filename) ==
    IF filename \notin DOMAIN CsvFiles THEN PanicTable
    ELSE IF CsvFiles[filename] = None THEN ErrTable("ArrowError")
    ELSE OkTable(CsvFiles[filename][1])

\* An insert that keeps the value already stored under the key.
insert_keep_first(tables, key, value) ==
    [k \in DOMAIN tables \cup {key} |-> IF k \in DOMAIN tables THEN tables[k] ELSE value]

\* HashMap::insert: the value stored under an equal key is replaced.
insert(tables, key, value) ==
    [k \in DOMAIN tables \cup {key} |-> IF k = key THEN value ELSE tables[k]]

\* Catalog::add_csv_table: the table is created before the insert, so a
\* failure leaves the map as it was.
add_csv_table(c, table_name, csv_file) ==
    LET created == try_create_table(csv_file)
    IN  IF created.status # "Ok"
        THEN [status |-> created.status, err |-> created.err, catalog |-> c]
        ELSE [status |-> "Ok", err |-> "",
              catalog |-> [c EXCEPT !.tables = insert(c.tables, table_name, created.table)]]

\* Catalog::get_table_by_name
get_table_by_name(c, table_name) ==
    IF table_name \in DOMAIN c.tables THEN OkTable(c.tables[table_name])
    ELSE ErrTable("NoSuchTable")

\* Catalog::get_table_df; a DataFrame is the plan it wraps.
get_table_df(c, table_name) ==
    IF table_name \in DOMAIN c.tables
    THEN OkPlan(LScan(c.tables[table_name], None))
    ELSE ErrPlan("NoSuchTable")

InitCatalog ==
    /\ op = "Catalog"
    /\ catalog = CatalogDefault
    /\ plan = << >>
    /\ aggr_expr = << >>
    /\ result = Idle
    /\ prev = Idle
    /\ runs = 0
    /\ trail = << >>

\* catalog.add_csv_table(table_name, csv_file); a panic ends the program.
AddCsvTable ==
    /\ op = "Catalog"
    /\ runs < MaxCalls
    /\ result.status # "Panic"
    /\ \E table_name \in TableNames, csv_file \in FileNames :
          LET r == add_csv_table(catalog, table_name, csv_file)
          IN  /\ catalog' = r.catalog
              /\ result' = [status |-> r.status, err |-> r.err]
              /\ trail' = Append(trail, [call |-> "add_csv_table", name |-> table_name,
                                         file |-> csv_file, status |-> r.status])
    /\ runs' = runs + 1
    /\ UNCHANGED <<op, plan, aggr_expr, prev>>

\* catalog.get_table_by_name(table_name)
GetTableByName ==
    /\ op = "Catalog"
    /\ runs < MaxCalls
    /\ result.status # "Panic"
    /\ \E table_name \in TableNames :
          /\ result' = get_table_by_name(catalog, table_name)
          /\ trail' = Append(trail, [call |-> "get_table_by_name", name |-> table_name,
                                     file |-> "", status |-> result'.status])
    /\ runs' = runs + 1
    /\ UNCHANGED <<catalog, op, plan, aggr_expr, prev>>

\* catalog.get_table_df(table_name)
GetTableDf ==
    /\ op = "Catalog"
    /\ runs < MaxCalls
    /\ result.status # "Panic"
    /\ \E table_name \in TableNames :
          /\ result' = get_table_df(catalog, table_name)
          /\ trail' = Append(trail, [call |-> "get_table_df", name |-> table_name,
                                     file |-> "", status |-> result'.status])
    /\ runs' = runs + 1
    /\ UNCHANGED <<catalog, op, plan, aggr_expr, prev>>

NextCatalog ==
    \/ AddCsvTable
    \/ GetTableByName
    \/ GetTableDf

SpecCatalog == InitCatalog /\ [][NextCatalog]_vars

\* The positions of the calls that registered `name`.
Registrations(name) ==
    {i \in DOMAIN trail : /\ trail[i].call = "add_csv_table"
                          /\ trail[i].name = name
                          /\ trail[i].status = "Ok"}

\* The table of the file most recently registered under `name`.
LastRegistered(name) ==
    LET i == CHOOSE i \in Registrations(name) : \A j \in Registrations(name) : j <= i
    IN  CsvFiles[trail[i].file][1]

LastCall == trail[Len(trail)]

\* C21: the catalog holds exactly the names that were registered, each with
\* the table most recently registered under it, so a lookup never changes
\* it; get_table_by_name and get_table_df succeed exactly for a registered
\* name (compared case-sensitively) and otherwise return NoSuchTable; the
\* DataFrame wraps a Scan with projection None over the table most recently
\* registered under the name.
C21_LookupFindsLastRegistered ==
    op = "Catalog" =>
        /\ DOMAIN catalog.tables = {n \in TableNames : Registrations(n) # {}}
        /\ \A n \in DOMAIN catalog.tables : catalog.tables[n] = LastRegistered(n)
        /\ (trail # << >> /\ LastCall.call = "get_table_by_name") =>
              IF Registrations(LastCall.name) # {}
              THEN result = OkTable(LastRegistered(LastCall.name))
              ELSE result.status = "Err" /\ result.err = "NoSuchTable"
        /\ (trail # << >> /\ LastCall.call = "get_table_df") =>
              IF Registrations(LastCall.name) # {}
              THEN /\ result.status = "Ok"
                   /\ result.plan.k = "LScan"
                   /\ result.plan.projection = None
                   /\ result.plan.data_source = LastRegistered(LastCall.name)
              ELSE result.status = "Err" /\ result.err = "NoSuchTable"

\* A name registered twice with different files and then looked up.
C21_Witness ==
    /\ op = "Catalog"
    /\ Len(trail) = 3
    /\ trail[1].call = "add_csv_table" /\ trail[1].name = "t" /\ trail[1].file = "a.csv"
    /\ trail[2].call = "add_csv_table" /\ trail[2].name = "t" /\ trail[2].file = "b.csv"
    /\ trail[3].call = "get_table_df" /\ trail[3].name = "t"
    /\ result.status = "Ok"
    /\ result.plan.data_source = CsvFiles["b.csv"][1]

----------------------------------------------------------------------------
(* Display of a logical plan: do_pretty_print *)

MaxDepth == 2

\* An indent of one space for each level.
repeat_one_space(width, n) == n

\* The length of "  ".repeat(n), the indent written in front of a line.
repeat(width, n) == width * n

\* One line of output: the indent and the text up to the colon.  The Debug
\* rendering of a field's value, which holds no line break, is left out.
Line(indent, text) == [indent |-> indent, text |-> text]

\* do_pretty_print(plan, f, depth): the lines written to f.
RECURSIVE do_pretty_print(_, _)
do_pretty_print(lp, depth) ==
    <<Line(repeat(2, depth),
           CASE lp.k = "LScan" -> "Scan:"
             [] lp.k = "LProjection" -> "Projection:"
             [] lp.k = "LSelection" -> "Selection:"
             [] lp.k = "LAggregation" -> "Aggregate:"
             [] lp.k = "LJoin" -> "Join:")>>
    \o
    CASE lp.k = "LScan" ->
            <<Line(repeat(2, depth + 1), "source_type:"),
              Line(repeat(2, depth + 1), "projection:")>>
      [] lp.k = "LProjection" ->
            <<Line(repeat(2, depth + 1), "exprs:"),
              Line(repeat(2, depth + 1), "input:")>>
            \o do_pretty_print(lp.input, depth + 2)
            \o <<Line(repeat(2, depth + 1), "schema:")>>
      [] lp.k = "LSelection" ->
            <<Line(repeat(2, depth + 1), "expr:"),
              Line(repeat(2, depth + 1), "input:")>>
            \o do_pretty_print(lp.input, depth + 2)
      [] lp.k = "LAggregation" ->
            <<Line(repeat(2, depth + 1), "input:")>>
            \o do_pretty_print(lp.input, depth + 2)
            \o <<Line(repeat(2, depth + 1), "group_expr:"),
                 Line(repeat(2, depth + 1), "aggr_expr:"),
                 Line(repeat(2, depth + 1), "schema:")>>
      [] lp.k = "LJoin" ->
            <<Line(repeat(2, depth + 1), "left:")>>
            \o do_pretty_print(lp.left, depth + 2)
            \o <<Line(repeat(2, depth + 1), "right:")>>
            \o do_pretty_print(lp.right, depth + 2)
            \o <<Line(repeat(2, depth + 1), "on:"),
                 Line(repeat(2, depth + 1), "join_type:"),
                 Line(repeat(2, depth + 1), "schema:")>>

\* <LogicalPlan as Debug>::fmt, which Display::fmt calls.
fmt(lp) == do_pretty_print(lp, 0)

\* The logical plans of nesting depth at most n over one table.
RECURSIVE DisplayPlans(_)
DisplayPlans(n) ==
    IF n = 0
    THEN {LScan(Table(CsvSchema, << >>), projection) : projection \in {None, Some(<<0>>)}}
    ELSE LET below == DisplayPlans(n - 1)
         IN  below
             \cup {LProjection(p, <<LColumn("id")>>, CsvSchema) : p \in below}
             \cup {LSelection(p, LColumn("id")) : p \in below}
             \cup {LAggregation(p, LColumn("id"), << >>, CsvSchema) : p \in below}
             \cup {LJoin(l, << >>, r, "Inner", schema_join(CsvSchema, CsvSchema)) :
                        l \in below, r \in below}

InitDisplay ==
    /\ op = "Display"
    /\ catalog = CatalogDefault
    /\ trail \in DisplayPlans(MaxDepth)
    /\ plan = << >>
    /\ aggr_expr = << >>
    /\ result = Idle
    /\ prev = Idle
    /\ runs = 0

\* format!("{}", plan)
Display ==
    /\ op = "Display"
    /\ runs = 0
    /\ result' = [status |-> "Ok", err |-> "", lines |-> fmt(trail)]
    /\ runs' = runs + 1
    /\ UNCHANGED <<catalog, op, plan, aggr_expr, prev, trail>>

SpecDisplay == InitDisplay /\ [][Display]_vars

\* The field labels of each kind of node, in the order they are printed.
FieldLabels(kind) ==
    CASE kind = "LScan" -> <<"source_type", "projection">>
      [] kind = "LProjection" -> <<"exprs", "input", "schema">>
      [] kind = "LSelection" -> <<"expr", "input">>
      [] kind = "LAggregation" -> <<"input", "group_expr", "aggr_expr", "schema">>
      [] kind = "LJoin" -> <<"left", "right", "on", "join_type", "schema">>

KindName(kind) ==
    CASE kind = "LScan" -> "Scan"
      [] kind = "LProjection" -> "Projection"
      [] kind = "LSelection" -> "Selection"
      [] kind = "LAggregation" -> "Aggregate"
      [] kind = "LJoin" -> "Join"

NestedPlans == {"input", "left", "right"}

\* The rendering the format prescribes for a node at depth d.
RECURSIVE Rendering(_, _)
Rendering(lp, d) ==
    LET labels == FieldLabels(lp.k)
        field(i) == <<[indent |-> 2 * (d + 1), text |-> labels[i] \o ":"]>>
                    \o IF labels[i] \in NestedPlans
                       THEN Rendering(CASE labels[i] = "input" -> lp.input
                                        [] labels[i] = "left" -> lp.left
                                        [] labels[i] = "right" -> lp.right, d + 2)
                       ELSE << >>
    IN  <<[indent |-> 2 * d, text |-> KindName(lp.k) \o ":"]>>
        \o Flatten([i \in DOMAIN labels |-> field(i)])

\* C22: a logical plan node rendered at depth d prints its kind at indent
\* 2*d, each of its field labels on a line of its own at indent 2*(d+1) in
\* the fixed order of its kind, and every nested plan at depth d+2, whatever
\* the nesting depth of the tree.
C22_RenderingIsIndentedTree ==
    (op = "Display" /\ runs = 1) =>
        /\ result.lines = Rendering(trail, 0)
        /\ \A d \in 1..MaxDepth : do_pretty_print(trail, d) = Rendering(trail, d)

\* A join of two plans that are themselves nested was rendered.
C22_Witness ==
    /\ op = "Display"
    /\ runs = 1
    /\ trail.k = "LJoin"
    /\ trail.left.k = "LAggregation"
    /\ trail.right.k = "LProjection"
    /\ Len(result.lines) = 21
    /\ result.lines[12] = [indent |-> 4, text |-> "Projection:"]
    /\ result.lines[15] = [indent |-> 8, text |-> "Scan:"]
    /\ result.lines[19] = [indent |-> 2, text |-> "on:"]

----------------------------------------------------------------------------
(* Selection under a predicate that holds nulls *)

PredicateEvaluates(i) ==
    /\ evaluate(plan.expr, plan.input.source.batches[i]).status = "Ok"
    /\ PredicateOf(i).dt = "Boolean"

\* The positions of input batch i whose predicate value is true or null.
KeptPositions(i) ==
    PositionsWhere([r \in DOMAIN PredicateOf(i).vals |-> PredicateOf(i).vals[r] # Some(FALSE)],
                   array_len(PredicateOf(i)))

\* C23: a row whose predicate value is null is kept, with null in every
\* output column at its position, so each output batch has as many rows as
\* its predicate has true and null values and all its columns have that
\* length.
C23_NullPredicateRowsAreKeptAsNulls ==
    (/\ op = "Selection"
     /\ runs > 0
     /\ \A i \in DOMAIN plan.input.source.batches : PredicateEvaluates(i))
    => LET input == plan.input.source.batches
       IN  /\ result.status = "Ok"
           /\ Len(result.batches) = Len(input)
           /\ \A i \in DOMAIN input :
                LET kept == KeptPositions(i)
                    pred == PredicateOf(i).vals
                    trues == Cardinality({r \in DOMAIN pred : pred[r] = Some(TRUE)})
                    nulls == Cardinality({r \in DOMAIN pred : pred[r] = None})
                IN  /\ Len(kept) = trues + nulls
                    /\ num_rows(result.batches[i]) = trues + nulls
                    /\ Len(result.batches[i].columns) = Len(input[i].columns)
                    /\ \A c \in DOMAIN input[i].columns :
                         /\ array_len(result.batches[i].columns[c]) = trues + nulls
                         /\ \A k \in DOMAIN kept :
                              result.batches[i].columns[c].vals[k] =
                                 IF pred[kept[k] + 1] = None THEN None
                                 ELSE input[i].columns[c].vals[kept[k] + 1]

\* A batch of three rows with a true, a null and a false predicate value: the
\* output has two rows, the second all null although its input value is not.
C23_Witness ==
    /\ op = "Selection" /\ runs > 0 /\ result.status = "Ok"
    /\ \E i \in DOMAIN plan.input.source.batches :
         /\ PredicateEvaluates(i)
         /\ PredicateOf(i).vals = <<Some(TRUE), None, Some(FALSE)>>
         /\ plan.input.source.batches[i].columns[1].vals[2] # None
         /\ num_rows(result.batches[i]) = 2
         /\ \A c \in DOMAIN result.batches[i].columns :
                result.batches[i].columns[c].vals[2] = None

----------------------------------------------------------------------------
\* The two sides of the executed join, each concatenated into one batch.
OuterTable == concat_batches(plan_schema(plan.left), execute(plan.left).batches).batches[1]
InnerTable == concat_batches(plan_schema(plan.right), execute(plan.right).batches).batches[1]

\* The match flags key pair i sets on the left and on the right positions.
LeftFlags(i) ==
    left_flag(OuterTable.columns[plan.on[i][1].index + 1],
              InnerTable.columns[plan.on[i][2].index + 1])
RightFlags(i) ==
    right_flag(OuterTable.columns[plan.on[i][1].index + 1],
               InnerTable.columns[plan.on[i][2].index + 1])

SeveralInt64Keys == JoinReturned /\ Len(plan.on) > 1 /\ Int64Keys

\* C24: with several key pairs the right columns of the output hold the right
\* rows flagged by at least one key pair, and the left columns the left rows
\* flagged by every key pair.
C24_RightAnyLeftAll ==
    SeveralInt64Keys =>
        LET nl == Len(plan_schema(plan.left))
            nr == Len(plan_schema(plan.right))
            all == PositionsWhere([l \in 1..num_rows(OuterTable) |->
                                      \A i \in DOMAIN plan.on : LeftFlags(i)[l]],
                                  num_rows(OuterTable))
            any == PositionsWhere([r \in 1..num_rows(InnerTable) |->
                                      \E i \in DOMAIN plan.on : RightFlags(i)[r]],
                                  num_rows(InnerTable))
        IN  /\ \A c \in 1..nl : result.batches[1].columns[c] = take(OuterTable.columns[c], all)
            /\ \A c \in 1..nr : result.batches[1].columns[nl + c] = take(InnerTable.columns[c], any)

----------------------------------------------------------------------------
(* One aggregate operator under update_batch, update and clear *)

MaxOpRows == 2
MaxOpCalls == 3

\* Tables of one numeric column of type dt, with and without nulls.
OperatorTables(dt) ==
    TablesOf(<<Field("x", dt, TRUE)>>, {<<None>>, <<Some(Num(dt, 1))>>, <<Some(Num(dt, 2))>>},
             MaxOpRows, 1)

\* A freshly constructed operator of kind `func` with an accumulator of type dt.
FreshOperator(func, dt) ==
    CASE func = "SUM" -> Sum(dt, ColumnExpr(0))
      [] func = "AVG" -> Avg(dt, ColumnExpr(0))
      [] func = "MIN" -> Min(dt, ColumnExpr(0))
      [] func = "MAX" -> Max(dt, ColumnExpr(0))
      [] func = "COUNT" -> Count(ColumnExpr(0))

InitOperator ==
    /\ op = "AggrOperator"
    /\ catalog = CatalogDefault
    /\ \E dt \in NumericTypes : plan \in {Scan(t, None) : t \in OperatorTables(dt)}
    /\ \E func \in AggregateFunc, dt \in NumericTypes :
         /\ aggr_expr = <<FreshOperator(func, dt)>>
         /\ trail = [fresh |-> FreshOperator(func, dt), calls |-> << >>]
    /\ result = Idle
    /\ prev = Idle
    /\ runs = 0

\* operator.update_batch(batch); a panic ends the program.
OperatorUpdateBatch ==
    /\ op = "AggrOperator"
    /\ runs < MaxOpCalls
    /\ result.status # "Panic"
    /\ \E b \in Range(plan.source.batches) :
         LET r == aggr_update_batch(aggr_expr[1], b)
         IN  /\ aggr_expr' = <<r.op>>
             /\ result' = [status |-> r.status, err |-> "", batches |-> << >>]
    /\ trail' = [trail EXCEPT !.calls = Append(@, "update_batch")]
    /\ runs' = runs + 1
    /\ UNCHANGED <<catalog, op, plan, prev>>

\* operator.update(batch, i)
OperatorUpdate ==
    /\ op = "AggrOperator"
    /\ runs < MaxOpCalls
    /\ result.status # "Panic"
    /\ \E b \in Range(plan.source.batches) : \E i \in 0..(num_rows(b) - 1) :
         LET r == aggr_update(aggr_expr[1], b, i)
         IN  /\ aggr_expr' = <<r.op>>
             /\ result' = [status |-> r.status, err |-> "", batches |-> << >>]
    /\ trail' = [trail EXCEPT !.calls = Append(@, "update")]
    /\ runs' = runs + 1
    /\ UNCHANGED <<catalog, op, plan, prev>>

\* operator.clear()
OperatorClear ==
    /\ op = "AggrOperator"
    /\ runs < MaxOpCalls
    /\ result.status # "Panic"
    /\ LET r == operator_clear(aggr_expr[1])
       IN  /\ aggr_expr' = <<r.op>>
           /\ result' = [status |-> r.status, err |-> "", batches |-> << >>]
    /\ trail' = [trail EXCEPT !.calls = Append(@, "clear")]
    /\ runs' = runs + 1
    /\ UNCHANGED <<catalog, op, plan, prev>>

NextOperator ==
    \/ OperatorUpdateBatch
    \/ OperatorUpdate
    \/ OperatorClear

SpecOperator == InitOperator /\ [][NextOperator]_vars

Cleared ==
    /\ op = "AggrOperator"
    /\ trail.calls # << >>
    /\ trail.calls[Len(trail.calls)] = "clear"

\* C25: for SUM, AVG, MIN, MAX and COUNT over Int64, UInt64 and Float64
\* accumulators, clear() after any updates returns Ok and leaves the operator
\* in the state of a freshly constructed one, so that evaluate() returns what
\* it returns on a new operator.
C25_ClearRestoresFreshState ==
    Cleared =>
        /\ result.status = "Ok"
        /\ aggr_expr[1] = trail.fresh
        /\ operator_evaluate(aggr_expr[1]) = operator_evaluate(trail.fresh)

----------------------------------------------------------------------------
OperandsEvaluate ==
    /\ evaluate(plan.left, trail).status = "Ok"
    /\ evaluate(plan.right, trail).status = "Ok"

\* C26: under And and Or, evaluate returns IntervalError whenever an operand
\* is not of type Boolean, and goes on to the downcast and the boolean kernel
\* only when both operands are.
C26_LogicalOperatorsRequireBoolean ==
    (Evaluated /\ plan.op \in LogicalOps /\ OperandsEvaluate) =>
        /\ (OperandType(plan.left) # "Boolean" \/ OperandType(plan.right) # "Boolean")
              => result = ErrCol("IntervalError")
        /\ result # ErrCol("IntervalError")
              => (OperandType(plan.left) = "Boolean" /\ OperandType(plan.right) = "Boolean")
        /\ result.status # "Panic"

\* Two Int64 operands, which pass the comparison of the two types, were
\* refused by the guard of the macro.
C26_Witness ==
    /\ Evaluated
    /\ plan.op = "And"
    /\ plan.left = ColumnExpr(0)
    /\ plan.right = LiteralExpr(Scalar("Int64", Some(1)))
    /\ num_rows(trail) = 1
    /\ result = ErrCol("IntervalError")

----------------------------------------------------------------------------
\* C27: an arithmetic operator over two operands of one type that is not Int64,
\* UInt64 or Float64 (Boolean, Utf8 or Null) returns IntervalError as an error
\* value.
C27_ArithmeticOnOtherTypesIsAnError ==
    (/\ Evaluated
     /\ plan.op \in ArithmeticOps
     /\ OperandsEvaluate
     /\ OperandType(plan.left) = OperandType(plan.right)
     /\ OperandType(plan.left) \notin NumericTypes)
        => result = ErrCol("IntervalError")

----------------------------------------------------------------------------
\* C28: the schema an Aggregation reports is the schema of the batches its
\* execute() returns: the group field, when there is a group expression, and
\* then one field for each aggregate operator.
C28_ReportedSchemaIsBatchSchema ==
    (op = "Aggregation" /\ runs > 0 /\ result.status = "Ok") =>
        /\ \A b \in DOMAIN result.batches : plan_schema(plan) = result.batches[b].schema
        /\ Len(plan_schema(plan)) = Len(plan.group_expr) + Len(aggr_expr)

----------------------------------------------------------------------------
(* The accumulators of a planned aggregation *)

\* The Aggregation the planner built for a DataFrame::aggregate call.
PlannedAggregation ==
    op = "Planned" /\ trail.call = "aggregate" /\ result.status = "Ok"

\* The element type of an operator's accumulator.
AccumulatorType(o) ==
    CASE o.kind = "SUM" -> o.sum.dt
      [] o.kind = "AVG" -> o.sum.dt
      [] o.kind = "MAX" -> o.max.dt
      [] o.kind = "MIN" -> o.min.dt

\* The field of the planned input an operator aggregates.
AggregatedColumn(o) == plan_schema(plan.input)[o.column.index + 1]

\* A batch of the planned input with one row, every column holding the value 1
\* of its type (the string "a" for a Utf8 column).
OneRowBatch ==
    LET schema == plan_schema(plan.input)
    IN  RecordBatch(schema,
            [c \in DOMAIN schema |->
                Array(schema[c].dt,
                      <<IF schema[c].dt = "Float64" THEN Some(<<1, 1>>)
                        ELSE IF schema[c].dt = "Utf8" THEN Some("a")
                        ELSE Some(1)>>)])

\* C29: each SUM, MIN, MAX and AVG operator of a planned aggregation has an
\* accumulator of the element type of the column it aggregates, and update()
\* on a non-null value of that column changes the accumulator.
C29_AccumulatorHasColumnType ==
    PlannedAggregation =>
        \A i \in DOMAIN plan.aggr_expr :
            LET o == plan.aggr_expr[i]
            IN  (o.kind # "COUNT" /\ AggregatedColumn(o).dt \in NumericTypes) =>
                    /\ AccumulatorType(o) = AggregatedColumn(o).dt
                    /\ aggr_update(o, OneRowBatch, 0).status = "Ok"
                    /\ aggr_update(o, OneRowBatch, 0).op # o

----------------------------------------------------------------------------
(* Column expressions planned over a Scan that carries a projection *)

\* The column indices a LogicalPlan::Scan is built with.
ScanProjections == {<<0>>, <<1>>, <<0, 1>>, <<1, 0>>}

ProjColumnNames == {ProjSchema[i].name : i \in DOMAIN ProjSchema}

\* DataFrame::project with Column expressions over a Scan with a projection,
\* translated by the planner.
InitProjectedScan ==
    /\ op = "Projection"
    /\ catalog = CatalogDefault
    /\ \E t \in ProjTables, projection \in ScanProjections :
       \E exprs \in SeqsUpTo({LColumn(n) : n \in ProjColumnNames}, MaxExprs) :
            LET df == project(LScan(t, Some(projection)), exprs)
            IN  /\ exprs # << >>
                /\ df.status = "Ok"
                /\ create_physical_plan(df.plan, "input.schema()").status = "Ok"
                /\ plan = create_physical_plan(df.plan, "input.schema()").plan
                /\ trail = Some(df.plan)
    /\ aggr_expr = << >>
    /\ result = Idle
    /\ prev = Idle
    /\ runs = 0

SpecProjectedScan == InitProjectedScan /\ [][Execute]_vars

\* The projection was executed over a Scan that carries a projection.
ProjectedScanExecuted ==
    /\ op = "Projection" /\ runs = 1 /\ IsSome(trail)
    /\ plan.input.k = "Scan" /\ IsSome(plan.input.projection)

\* The index of the table column a Column(name) expression names.
TableColumn(name) == index_of(plan.input.source.schema, name).index

\* The table column is among the columns the Scan returns.
Visible(name) == \E i \in DOMAIN plan.input.projection[1] :
                    plan.input.projection[1][i] = TableColumn(name)

\* C30: over a Scan with projection Some([..]), each planned Column(name) that
\* names a column the Scan returns evaluates, batch by batch, to the data of
\* the table column of that name.
C30_ColumnAddressesNamedColumn ==
    (ProjectedScanExecuted
        /\ \A e \in DOMAIN trail[1].exprs : Visible(trail[1].exprs[e].name)) =>
        /\ result.status = "Ok"
        /\ Len(result.batches) = Len(plan.input.source.batches)
        /\ \A b \in DOMAIN result.batches : \A e \in DOMAIN trail[1].exprs :
              result.batches[b].columns[e]
                  = plan.input.source.batches[b].columns[TableColumn(trail[1].exprs[e].name) + 1]

====
